---- MODULE Spec2Model ----
(***************************************************************************)
(* Safety Net command analysis pipeline (plugins/safety-net/src).          *)
(*                                                                         *)
(* Command texts are TLA+ strings; the scanners read them one character at *)
(* a time, as the TypeScript loops do (Ch(s, i) is s[i - 1] of the code).  *)
(* analyzeCommand is a state machine: one step per iteration of its        *)
(* segment loop, one step per element visited by analyzeNested, one step   *)
(* per return of analyzeNested, and a final step for everything after the  *)
(* loop (unparseable verdict, aggregation, modifiers, reason).             *)
(***************************************************************************)
EXTENDS Integers, Sequences, FiniteSets, TLC

(***************************************************************************)
(* Strings                                                                 *)
(***************************************************************************)

\* JavaScript's undefined (an option that was not passed, a missing field).
Undef == "<undefined>"

\* command[i] of the code, 1-based; the empty string past the end (the code's undefined,
\* which every use replaces by the empty string or compares with a character).
Ch(s, i) == IF i >= 1 /\ i <= Len(s) THEN SubSeq(s, i, i) ELSE ""

\* The n characters of s from index i on, or the empty string when s ends
\* before them (a pattern cannot match there).
Mid(s, i, n) == IF i >= 1 /\ i + n - 1 <= Len(s) THEN SubSeq(s, i, i + n - 1) ELSE ""

\* String.prototype.startsWith
StartsWith(s, p) == Len(s) >= Len(p) /\ SubSeq(s, 1, Len(p)) = p

\* String.prototype.includes
StrIncludes(s, sub) ==
    \E i \in 1..(Len(s) - Len(sub) + 1) : SubSeq(s, i, i + Len(sub) - 1) = sub

\* Array.prototype.includes
Includes(arr, w) == \E i \in 1..Len(arr) : arr[i] = w

\* Array.prototype.slice(n) with a 0-based start index n
SliceFrom(arr, n) == SubSeq(arr, n + 1, Len(arr))

\* arr[n] with the code's 0-based index; Undef past the end
At(arr, n) == IF n >= 0 /\ n < Len(arr) THEN arr[n + 1] ELSE Undef

\* The characters the whitespace class of a regular expression matches
\* (among those a TLA+ string can hold).
Whitespace == {" ", "\t", "\n", "\r", "\f"}

\* The characters the digit class of a regular expression matches.
Digits == {"0", "1", "2", "3", "4", "5", "6", "7", "8", "9"}

\* The backquote character (a string literal cannot hold it alone).
Backtick == Head("`'")

UpperLetters == "ABCDEFGHIJKLMNOPQRSTUVWXYZ"

LowerLetters == "abcdefghijklmnopqrstuvwxyz"

IsUpper(c) == \E i \in 1..Len(UpperLetters) : Ch(UpperLetters, i) = c

IsLower(c) == \E i \in 1..Len(LowerLetters) : Ch(LowerLetters, i) = c

\* [A-Za-z_]
IsIdentStart(c) == IsUpper(c) \/ IsLower(c) \/ c = "_"

\* The word class, [A-Za-z0-9_]
IsWordChar(c) == IsIdentStart(c) \/ c \in Digits

LowerChar(c) ==
    IF IsUpper(c)
    THEN Ch(LowerLetters, CHOOSE i \in 1..Len(UpperLetters) : Ch(UpperLetters, i) = c)
    ELSE c

RECURSIVE ToLowerCase(_)
\* String.prototype.toLowerCase
ToLowerCase(s) ==
    IF s = "" THEN "" ELSE LowerChar(Head(s)) \o ToLowerCase(Tail(s))

RECURSIVE TrimStart(_)
TrimStart(s) ==
    IF s # "" /\ Head(s) \in Whitespace THEN TrimStart(Tail(s)) ELSE s

RECURSIVE TrimEnd(_)
TrimEnd(s) ==
    IF s # "" /\ Ch(s, Len(s)) \in Whitespace
    THEN TrimEnd(SubSeq(s, 1, Len(s) - 1))
    ELSE s

\* String.prototype.trim
Trim(s) == TrimEnd(TrimStart(s))

RECURSIVE JoinWords(_, _)
\* Array.prototype.join(sep)
JoinWords(arr, sep) ==
    IF arr = <<>> THEN ""
    ELSE IF Len(arr) = 1 THEN arr[1]
    ELSE arr[1] \o sep \o JoinWords(Tail(arr), sep)

(***************************************************************************)
(* shell/parser.ts: the tokenizer                                          *)
(***************************************************************************)

\* The assignment pattern: an identifier at the start of s, followed by =.
RECURSIVE IdentEnd(_, _)
IdentEnd(s, i) == IF IsWordChar(Ch(s, i)) THEN IdentEnd(s, i + 1) ELSE i

IsEnvAssignment(s) ==
    /\ IsIdentStart(Ch(s, 1))
    /\ Ch(s, IdentEnd(s, 2)) = "="

\* pushToken: push the current token if non-empty, then reset it.
pushToken(st) ==
    [st EXCEPT
        !.tokens = IF st.current # ""
                   THEN Append(st.tokens,
                               [type |-> IF IsEnvAssignment(st.current) THEN "env" ELSE "word",
                                value |-> st.current,
                                quoted |-> st.currentQuoted])
                   ELSE st.tokens,
        !.current = "",
        !.currentQuoted = FALSE]

\* The redirect scan: while the next character is >, < or a digit, take it.
RECURSIVE RedirectEnd(_, _)
RedirectEnd(command, i) ==
    IF Ch(command, i + 1) \in ({">", "<"} \cup Digits)
    THEN RedirectEnd(command, i + 1)
    ELSE i

\* The index of the last character of the redirect operator that starts at i.
RedirectLast(command, i) ==
    LET j == RedirectEnd(command, i) IN
    IF Ch(command, j + 1) = "&"
    THEN IF Ch(command, j + 2) \in Digits THEN j + 2 ELSE j + 1
    ELSE j

\* One iteration of tokenize's for loop at index i: the next index and state.
TokenizeStep(command, i, st) ==
    LET char == Ch(command, i)
        next(state) == [i |-> i + 1, st |-> state]
    IN
      IF st.escapeNext
      THEN next([st EXCEPT !.current = st.current \o char, !.escapeNext = FALSE])
      ELSE IF char = "\\" /\ ~st.inSingleQuote
      THEN next([st EXCEPT !.escapeNext = TRUE])
      ELSE IF char = "'" /\ ~st.inDoubleQuote
      THEN next([st EXCEPT !.inSingleQuote = ~st.inSingleQuote, !.currentQuoted = TRUE])
      ELSE IF char = "\"" /\ ~st.inSingleQuote
      THEN next([st EXCEPT !.inDoubleQuote = ~st.inDoubleQuote, !.currentQuoted = TRUE])
      ELSE IF st.inSingleQuote \/ st.inDoubleQuote
      THEN next([st EXCEPT !.current = st.current \o char])
      ELSE IF char \in Whitespace
      THEN next(pushToken(st))
      ELSE IF char = ">" \/ char = "<"
      THEN LET last == RedirectLast(command, i)
               pushed == pushToken(st)
           IN [i |-> last + 1,
               st |-> [pushed EXCEPT !.tokens =
                         Append(pushed.tokens,
                                [type |-> "redirect",
                                 value |-> SubSeq(command, i, last),
                                 quoted |-> FALSE])]]
      ELSE next([st EXCEPT !.current = st.current \o char])

RECURSIVE TokenizeFrom(_, _, _)
\* The for loop from index i on, then the final pushToken.
TokenizeFrom(command, i, st) ==
    IF i > Len(command) THEN pushToken(st).tokens
    ELSE LET r == TokenizeStep(command, i, st) IN TokenizeFrom(command, r.i, r.st)

tokenize(command) ==
    TokenizeFrom(command, 1,
        [tokens |-> <<>>, current |-> "", inSingleQuote |-> FALSE,
         inDoubleQuote |-> FALSE, escapeNext |-> FALSE, currentQuoted |-> FALSE])

RECURSIVE extractWords(_)
\* tokens.filter(t => t.type === "word").map(t => t.value)
extractWords(tokens) ==
    IF tokens = <<>> THEN <<>>
    ELSE IF Head(tokens).type = "word"
         THEN <<Head(tokens).value>> \o extractWords(Tail(tokens))
         ELSE extractWords(Tail(tokens))

(***************************************************************************)
(* shell/splitter.ts: the compound splitter and the unparseable detector   *)
(***************************************************************************)

\* pushSegment without the reset of the current text
pushSegmentKeepCurrent(st, operator) ==
    [st EXCEPT
        !.segments = IF Trim(st.current) # ""
                     THEN Append(st.segments,
                                 [command |-> Trim(st.current), operator |-> operator])
                     ELSE st.segments]

\* pushSegment with no operator recorded on the first segment
pushSegmentPreceding(st, operator) ==
    [st EXCEPT
        !.segments = IF Trim(st.current) # ""
                     THEN Append(st.segments,
                                 [command |-> Trim(st.current),
                                  operator |-> IF st.segments = <<>> THEN Undef
                                               ELSE operator])
                     ELSE st.segments,
        !.current = ""]

\* pushSegment: push the trimmed current text with its operator if non-blank.
pushSegment(st, operator) ==
    [st EXCEPT
        !.segments = IF Trim(st.current) # ""
                     THEN Append(st.segments,
                                 [command |-> Trim(st.current), operator |-> operator])
                     ELSE st.segments,
        !.current = ""]

\* A closing bracket that closes every open one
DecDepthToZero(n) == 0

\* Math.max(0, n - 1) without the clamp
DecDepthUnclamped(n) == n - 1

\* Math.max(0, n - 1)
DecDepth(n) == IF n - 1 > 0 THEN n - 1 ELSE 0

\* One iteration of splitCommand's for loop at index i: the next index and state.
SplitStep(command, i, st) ==
    LET char == Ch(command, i)
        twoChar == char \o Ch(command, i + 1)
        add == [st EXCEPT !.current = st.current \o char]
    IN
    IF st.escapeNext
    THEN [i |-> i + 1, st |-> [add EXCEPT !.escapeNext = FALSE]]
    ELSE IF char = "\\" /\ ~st.inSingleQuote
    THEN [i |-> i + 1, st |-> [add EXCEPT !.escapeNext = TRUE]]
    ELSE IF char = "'" /\ ~st.inDoubleQuote /\ ~st.inBacktick
    THEN [i |-> i + 1, st |-> [add EXCEPT !.inSingleQuote = ~st.inSingleQuote]]
    ELSE IF char = "\"" /\ ~st.inSingleQuote /\ ~st.inBacktick
    THEN [i |-> i + 1, st |-> [add EXCEPT !.inDoubleQuote = ~st.inDoubleQuote]]
    ELSE IF char = Backtick /\ ~st.inSingleQuote
    THEN [i |-> i + 1, st |-> [add EXCEPT !.inBacktick = ~st.inBacktick]]
    ELSE IF st.inSingleQuote \/ st.inDoubleQuote \/ st.inBacktick
    THEN [i |-> i + 1, st |-> add]
    ELSE IF char = "("
    THEN [i |-> i + 1, st |-> [add EXCEPT !.parenDepth = st.parenDepth + 1]]
    ELSE IF char = "{"
    THEN [i |-> i + 1, st |-> [add EXCEPT !.braceDepth = st.braceDepth + 1]]
    ELSE IF char = ")"
    THEN [i |-> i + 1, st |-> [add EXCEPT !.parenDepth = DecDepth(st.parenDepth)]]
    ELSE IF char = "}"
    THEN [i |-> i + 1, st |-> [add EXCEPT !.braceDepth = DecDepth(st.braceDepth)]]
    ELSE IF st.parenDepth > 0 \/ st.braceDepth > 0
    THEN [i |-> i + 1, st |-> add]
    ELSE IF twoChar = "&&" \/ twoChar = "||"
    THEN [i |-> i + 2, st |-> pushSegment(st, twoChar)]
    ELSE IF char = ";" \/ char = "|" \/ char = "&"
    THEN [i |-> i + 1, st |-> pushSegment(st, char)]
    ELSE [i |-> i + 1, st |-> add]

RECURSIVE SplitFrom(_, _, _)
\* The for loop from index i on, then the push of the remaining content.
SplitFrom(command, i, st) ==
    IF i > Len(command)
    THEN IF Trim(st.current) # ""
         THEN Append(st.segments, [command |-> Trim(st.current), operator |-> Undef])
         ELSE st.segments
    ELSE LET n == SplitStep(command, i, st) IN SplitFrom(command, n.i, n.st)

SplitInit ==
    [segments |-> <<>>, current |-> "", inSingleQuote |-> FALSE,
     inDoubleQuote |-> FALSE, inBacktick |-> FALSE, escapeNext |-> FALSE,
     parenDepth |-> 0, braceDepth |-> 0]

splitCommand(command) == SplitFrom(command, 1, SplitInit)

\* The heredoc pattern without its optional quote
HeredocAtUnquoted(s, i) ==
    /\ Mid(s, i, 2) = "<<"
    /\ LET j == IF Ch(s, i + 2) = "-" THEN i + 3 ELSE i + 2
       IN IsWordChar(Ch(s, j))

\* The heredoc pattern matches at index i: two <, an optional -, an optional
\* single or double quote, then at least one word character.
HeredocAt(s, i) ==
    /\ Mid(s, i, 2) = "<<"
    /\ LET j == IF Ch(s, i + 2) = "-" THEN i + 3 ELSE i + 2
           k == IF Ch(s, j) \in {"'", "\""} THEN j + 1 ELSE j
       IN IsWordChar(Ch(s, k))

RECURSIVE SkipWs(_, _)
SkipWs(s, i) == IF Ch(s, i) \in Whitespace THEN SkipWs(s, i + 1) ELSE i

\* The whitelist patterns, were they to ask for a delimiter after the two <
PrefixWsHeredocWord(s, prefix) ==
    \E i \in 1..Len(s) :
        /\ Mid(s, i, Len(prefix)) = prefix
        /\ Ch(s, i + Len(prefix)) \in Whitespace
        /\ LET j == SkipWs(s, i + Len(prefix)) IN HeredocAt(s, j)

\* The whitelist patterns: prefix, at least one whitespace character, then
\* two <, somewhere in s.
PrefixWsHeredoc(s, prefix) ==
    \E i \in 1..Len(s) :
        /\ Mid(s, i, Len(prefix)) = prefix
        /\ Ch(s, i + Len(prefix)) \in Whitespace
        /\ LET j == SkipWs(s, i + Len(prefix)) IN Mid(s, j, 2) = "<<"

hasUnparseableConstructs(command) ==
    LET heredoc == \E i \in 1..Len(command) : HeredocAt(command, i)
        isCatHeredoc == PrefixWsHeredoc(command, "$(cat")
        isStdinHeredoc == PrefixWsHeredoc(command, "--stdin")
    IN
    IF heredoc /\ ~isCatHeredoc /\ ~isStdinHeredoc THEN TRUE
    ELSE IF StrIncludes(command, "<(") THEN TRUE
    ELSE IF StrIncludes(command, "$((") THEN TRUE
    ELSE FALSE

(***************************************************************************)
(* shell/wrappers.ts: wrapper stripping and nested-command extraction      *)
(***************************************************************************)

\* The outcome of a call that ended in a TypeError instead of a value.
Threw == "<TypeError>"

STRIP_PREFIXES ==
    {"sudo", "env", "command", "builtin", "exec", "nohup", "nice", "ionice",
     "time", "strace", "ltrace"}

\* The keys of COMMANDS_WITH_POSITIONAL_ARG with their values.
COMMANDS_WITH_POSITIONAL_ARG == [timeout |-> 1, nice |-> 0, ionice |-> 0]

\* The keys of SHELL_WRAPPERS with their flag lists.
SHELL_WRAPPERS ==
    [sh |-> <<"-c">>, bash |-> <<"-c", "-lc">>, zsh |-> <<"-c", "-lc">>,
     dash |-> <<"-c">>, ksh |-> <<"-c">>, fish |-> <<"-c">>]

\* The keys of INTERPRETER_WRAPPERS with their flag lists.
INTERPRETER_WRAPPERS ==
    [python |-> <<"-c">>, python3 |-> <<"-c">>, node |-> <<"-e", "--eval">>,
     ruby |-> <<"-e">>, perl |-> <<"-e">>, php |-> <<"-r">>]

\* The property names every object literal inherits from Object.prototype:
\* the in operator of the code (cmd in SHELL_WRAPPERS) is true for them too,
\* and the value found there is not an array.
ObjectPrototypeKeys ==
    {"constructor", "__proto__", "hasOwnProperty", "isPrototypeOf",
     "propertyIsEnumerable", "toLocaleString", "toString", "valueOf",
     "__defineGetter__", "__defineSetter__", "__lookupGetter__",
     "__lookupSetter__"}

\* key in obj
InObject(key, obj) == key \in DOMAIN obj \/ key \in ObjectPrototypeKeys

RECURSIVE SkipEnvTokens(_, _)
\* while (idx < tokens.length && tokens[idx]?.type === "env") idx++
SkipEnvTokens(tokens, idx) ==
    IF idx <= Len(tokens) /\ tokens[idx].type = "env"
    THEN SkipEnvTokens(tokens, idx + 1)
    ELSE idx

RECURSIVE SkipOptionTokens(_, _)
\* while (idx < tokens.length && tokens[idx]?.value.startsWith("-")) idx++
SkipOptionTokens(tokens, idx) ==
    IF idx <= Len(tokens) /\ StartsWith(tokens[idx].value, "-")
    THEN SkipOptionTokens(tokens, idx + 1)
    ELSE idx

RECURSIVE SkipPositionalArgs(_, _, _)
\* for (i = 0; i < numArgs && idx < tokens.length; i++)
\*     if (!tokens[idx]?.value.startsWith("-")) idx++
SkipPositionalArgs(tokens, idx, numArgs) ==
    IF numArgs > 0 /\ idx <= Len(tokens)
    THEN SkipPositionalArgs(tokens,
             IF StartsWith(tokens[idx].value, "-") THEN idx ELSE idx + 1,
             numArgs - 1)
    ELSE idx

RECURSIVE SkipEnvArgs(_, _)
\* the env branch: skip VAR=value pairs and options
SkipEnvArgs(tokens, idx) ==
    IF /\ idx <= Len(tokens)
       /\ \/ tokens[idx].type = "env"
          \/ StrIncludes(tokens[idx].value, "=")
          \/ StartsWith(tokens[idx].value, "-")
    THEN SkipEnvArgs(tokens, idx + 1)
    ELSE idx

RECURSIVE StripLoop(_, _, _)
\* The second while loop of stripWrappers from index idx (1-based) on.
StripLoop(tokens, idx, prefixes) ==
    IF idx > Len(tokens) THEN [idx |-> idx, strippedPrefixes |-> prefixes]
    ELSE LET token == tokens[idx]
             cmd == ToLowerCase(token.value)
         IN
         IF token.type # "word" THEN [idx |-> idx, strippedPrefixes |-> prefixes]
         ELSE IF cmd \in STRIP_PREFIXES
         THEN StripLoop(tokens, SkipOptionTokens(tokens, idx + 1),
                        Append(prefixes, token.value))
         ELSE IF InObject(cmd, COMMANDS_WITH_POSITIONAL_ARG)
         THEN LET numArgs == IF cmd \in DOMAIN COMMANDS_WITH_POSITIONAL_ARG
                             THEN COMMANDS_WITH_POSITIONAL_ARG[cmd]
                             \* an inherited property is no number: i < numArgs is false
                             ELSE 0
              IN StripLoop(tokens,
                     SkipPositionalArgs(tokens, SkipOptionTokens(tokens, idx + 1), numArgs),
                     Append(prefixes, token.value))
         ELSE IF cmd = "env" \/ token.type = "env"
         THEN StripLoop(tokens, SkipEnvArgs(tokens, idx + 1),
                        Append(prefixes, token.value))
         ELSE [idx |-> idx, strippedPrefixes |-> prefixes]

stripWrappers(tokens) ==
    LET r == StripLoop(tokens, SkipEnvTokens(tokens, 1), <<>>) IN
    [tokens |-> SubSeq(tokens, r.idx, Len(tokens)),
     strippedPrefixes |-> r.strippedPrefixes]

\* The words of a command after wrapper stripping, as every provider takes them
Words(command) == extractWords(stripWrappers(tokenize(command)).tokens)

RECURSIVE FlagExtractions(_, _, _, _, _)
\* The loop over words[i], i >= 1, of the shell and interpreter branches: one
\* extraction per occurrence of a flag that is followed by a word.
FlagExtractions(words, i, cmd, flags, type) ==
    IF i > Len(words) THEN <<>>
    ELSE (IF Includes(flags, words[i]) /\ i + 1 <= Len(words) /\ words[i + 1] # ""
          THEN <<[command |-> words[i + 1],
                  wrapper |-> cmd \o " " \o words[i],
                  type |-> type]>>
          ELSE <<>>)
         \o FlagExtractions(words, i + 1, cmd, flags, type)

RECURSIVE SkipOptionWords(_, _)
\* while (startIdx < words.length && words[startIdx]?.startsWith("-")) startIdx++
SkipOptionWords(words, i) ==
    IF i <= Len(words) /\ StartsWith(words[i], "-")
    THEN SkipOptionWords(words, i + 1)
    ELSE i

RECURSIVE SkipParallelOptions(_, _)
\* parallel: -j, --jobs, -S and --sshlogin take an argument
SkipParallelOptions(words, i) ==
    IF i <= Len(words) /\ StartsWith(words[i], "-")
    THEN SkipParallelOptions(words,
             IF words[i] \in {"-j", "--jobs", "-S", "--sshlogin"} THEN i + 2 ELSE i + 1)
    ELSE i

\* words.indexOf(w, from), 1-based; 0 when absent
IndexOfFrom(words, w, from) ==
    IF \E k \in from..Len(words) : words[k] = w
    THEN CHOOSE k \in from..Len(words) :
            words[k] = w /\ \A m \in from..(k - 1) : words[m] # w
    ELSE 0

RECURSIVE ExecWords(_, _)
\* find -exec: collect the words from index j up to a semicolon (bare or
\* with its backslash kept) or a plus sign
ExecWords(words, j) ==
    IF j > Len(words) \/ words[j] \in {";", "\\;", "+"} THEN <<>>
    ELSE (IF words[j] # "" THEN <<words[j]>> ELSE <<>>) \o ExecWords(words, j + 1)

RECURSIVE WithoutWord(_, _)
\* arr.filter(w => w !== x)
WithoutWord(arr, x) ==
    IF arr = <<>> THEN <<>>
    ELSE (IF Head(arr) # x THEN <<Head(arr)>> ELSE <<>>) \o WithoutWord(Tail(arr), x)

RECURSIVE FindExtractions(_, _)
FindExtractions(words, i) ==
    IF i > Len(words) THEN <<>>
    ELSE (IF words[i] \in {"-exec", "-execdir", "-ok", "-okdir"}
          THEN LET execCmd == ExecWords(words, i + 1)
                   cleanedCmd == JoinWords(WithoutWord(execCmd, "{}"), " ")
               IN IF Len(execCmd) > 0 /\ cleanedCmd # ""
                  THEN <<[command |-> cleanedCmd,
                          wrapper |-> "find " \o words[i],
                          type |-> "find-exec"]>>
                  ELSE <<>>
          ELSE <<>>)
         \o FindExtractions(words, i + 1)

\* Whether extractNestedCommands throws: for a first word that names an
\* inherited property of the wrapper tables, flags is not an array and
\* flags?.includes(word) is a call of undefined.
extractNestedCommandsThrows(tokens) ==
    LET words == extractWords(tokens) IN
    Len(words) >= 2 /\ ToLowerCase(words[1]) \in ObjectPrototypeKeys

\* The list of extracted commands of a call that returns
extractNestedCommands(tokens) ==
    LET words == extractWords(tokens)
        cmd == IF Len(words) >= 1 THEN ToLowerCase(words[1]) ELSE ""
        shell ==
            IF cmd \in DOMAIN SHELL_WRAPPERS
            THEN FlagExtractions(words, 2, cmd, SHELL_WRAPPERS[cmd], "shell")
            ELSE <<>>
        interpreter ==
            IF cmd \in DOMAIN INTERPRETER_WRAPPERS
            THEN FlagExtractions(words, 2, cmd, INTERPRETER_WRAPPERS[cmd], "interpreter")
            ELSE <<>>
        xargs ==
            IF cmd = "xargs"
            THEN LET startIdx == SkipOptionWords(words, 2)
                     xargsCmd == JoinWords(SubSeq(words, startIdx, Len(words)), " ")
                 IN IF startIdx <= Len(words) /\ xargsCmd # ""
                    THEN <<[command |-> xargsCmd, wrapper |-> "xargs", type |-> "xargs"]>>
                    ELSE <<>>
            ELSE <<>>
        parallel ==
            IF cmd = "parallel"
            THEN LET startIdx == SkipParallelOptions(words, 2)
                     colonIdx == IndexOfFrom(words, ":::", startIdx)
                     endIdx == IF colonIdx > startIdx THEN colonIdx - 1 ELSE Len(words)
                     parallelCmd == JoinWords(SubSeq(words, startIdx, endIdx), " ")
                 IN IF startIdx <= Len(words) /\ parallelCmd # ""
                    THEN <<[command |-> parallelCmd, wrapper |-> "parallel", type |-> "xargs"]>>
                    ELSE <<>>
            ELSE <<>>
        find == IF cmd = "find" THEN FindExtractions(words, 2) ELSE <<>>
    IN
    IF Len(words) < 2 \/ extractNestedCommandsThrows(tokens) THEN <<>>
    ELSE shell \o interpreter \o xargs \o parallel \o find

\* getEffectiveCommand naming no command when the first token was quoted
EffectiveOfUnquoted(tokens, words) ==
    [threw |-> extractNestedCommandsThrows(tokens),
     command |-> IF Len(words) >= 1 /\ ~tokens[1].quoted THEN words[1] ELSE "",
     args |-> SliceFrom(words, 1),
     nested |-> extractNestedCommands(tokens)]

\* The result of getEffectiveCommand from the tokens of the command
EffectiveOf(tokens, words) ==
    [threw |-> extractNestedCommandsThrows(tokens),
     command |-> IF Len(words) >= 1 THEN words[1] ELSE "",
     args |-> SliceFrom(words, 1),
     nested |-> extractNestedCommands(tokens)]

\* The effective command name (words[0] after stripping, or the empty
\* string); threw tells that the extraction of the nested commands threw.
getEffectiveCommand(command) ==
    EffectiveOf(tokenize(command), Words(command))

(***************************************************************************)
(* Verdicts (SegmentResult) and options (AnalyzerOptions)                  *)
(***************************************************************************)

\* A SegmentResult: decision, rule and reason (matchedTokens, category and
\* confidence are carried by the code and read by nothing in the analyzer).
Verdict(decision, rule, reason) ==
    [decision |-> decision, rule |-> rule, reason |-> reason]

\* { decision: "allow" }
AllowVerdict == Verdict("allow", Undef, Undef)

\* No verdict: a loop that ended without returning one
NoVerdict == Verdict(Undef, Undef, Undef)

\* The outcome of a call that threw instead of returning a verdict
ThrewVerdict == Verdict(Threw, Undef, Undef)

\* options.<field>: undefined for a field the object does not carry
Opt(options, field) == IF field \in DOMAIN options THEN options[field] ELSE Undef

\* The truthiness of options.<field>, a boolean or undefined
Truthy(options, field) == field \in DOMAIN options /\ options[field] = TRUE

\* Whether options.<field> is defined
Has(options, field) == field \in DOMAIN options

(***************************************************************************)
(* rules/git.ts                                                            *)
(***************************************************************************)

hasSafetyFlags(args) ==
    \E i \in 1..Len(args) :
        args[i] \in {"--dry-run", "-n", "--porcelain", "--help", "-h", "--version"}

isUnsafeForce(args) ==
    LET hasForce == \E i \in 1..Len(args) :
            args[i] = "--force" \/ args[i] = "-f" \/ StartsWith(args[i], "--force=")
        hasLease == \E i \in 1..Len(args) :
            args[i] = "--force-with-lease" \/ StartsWith(args[i], "--force-with-lease=")
    IN hasForce /\ ~hasLease

\* hasPathArg(args) with afterDoubleDash = false, its only use
hasPathArg(args) == \E i \in 1..Len(args) : ~StartsWith(args[i], "-")

RECURSIVE AllLettersUpTo(_, _)
AllLettersUpTo(a, k) ==
    k < 2 \/ ((IsUpper(Ch(a, k)) \/ IsLower(Ch(a, k))) /\ AllLettersUpTo(a, k - 1))

\* The git clean pattern: a dash, any letters, then f.
DashLettersF(a) ==
    /\ Ch(a, 1) = "-"
    /\ \E k \in 2..Len(a) : Ch(a, k) = "f" /\ AllLettersUpTo(a, k - 1)

\* The rules of analyzeGitCommand over the words of the command
GitRules(words, command, options) ==
    LET subcommand == At(words, 1)
        args == SliceFrom(words, 2)
    IN
    IF Len(words) < 2 \/ words[1] # "git" THEN AllowVerdict
    ELSE IF hasSafetyFlags(args) THEN AllowVerdict
    ELSE IF subcommand = "checkout"
            /\ (Includes(args, "--") \/ Includes(args, "-f") \/ Includes(args, "--force"))
    THEN Verdict("warn", "git-checkout-discard",
           "git checkout can discard uncommitted changes. Use 'git stash' first if needed.")
    ELSE IF subcommand = "reset" /\ (Includes(args, "--hard") \/ Includes(args, "--merge"))
    THEN Verdict("deny", "git-reset-hard",
           "git reset "
           \o (IF Includes(args, "--hard") THEN "--hard" ELSE "--merge")
           \o " destroys uncommitted changes permanently.")
    ELSE IF subcommand = "clean"
            /\ (Includes(args, "-f") \/ Includes(args, "--force")
                \/ \E i \in 1..Len(args) : DashLettersF(args[i]))
    THEN Verdict("deny", "git-clean-force",
           "git clean -f permanently removes untracked files.")
    ELSE IF subcommand = "push" /\ isUnsafeForce(args)
    THEN Verdict("deny", "git-push-force",
           "git push --force can destroy remote history. Use --force-with-lease instead.")
    ELSE IF subcommand = "branch"
            /\ (Includes(args, "-D")
                \/ (Includes(args, "-d") /\ Includes(args, "-f"))
                \/ (Includes(args, "--delete") /\ Includes(args, "--force")))
    THEN Verdict("warn", "git-branch-force-delete",
           "git branch -D force-deletes without checking if branch is merged.")
    ELSE IF subcommand = "stash" /\ Includes(args, "drop")
    THEN Verdict("warn", "git-stash-drop",
           "git stash drop permanently deletes a stashed change.")
    ELSE IF subcommand = "stash" /\ Includes(args, "clear")
    THEN Verdict("deny", "git-stash-clear",
           "git stash clear permanently deletes ALL stashed changes.")
    ELSE IF subcommand = "restore"
            /\ (~(Includes(args, "--staged") \/ Includes(args, "-S"))
                \/ Includes(args, "--worktree") \/ Includes(args, "-W"))
            /\ hasPathArg(args)
    THEN Verdict("warn", "git-restore-worktree",
           "git restore discards uncommitted changes to working tree.")
    ELSE IF subcommand = "switch"
            /\ (Includes(args, "-f") \/ Includes(args, "--force")
                \/ Includes(args, "--discard-changes"))
    THEN Verdict("warn", "git-switch-force",
           "git switch -f discards local changes when switching branches.")
    ELSE IF subcommand = "worktree" /\ Includes(args, "remove")
            /\ (Includes(args, "--force") \/ Includes(args, "-f"))
    THEN Verdict("warn", "git-worktree-remove-force",
           "git worktree remove --force can delete worktree files with uncommitted changes.")
    ELSE IF subcommand = "rebase"
    THEN IF Includes(args, "--abort") \/ Includes(args, "--continue") \/ Includes(args, "--skip")
         THEN AllowVerdict
         ELSE Verdict("warn", "git-rebase",
                "git rebase rewrites commit history. Ensure you understand the implications.")
    ELSE IF subcommand = "filter-repo" \/ subcommand = "filter-branch"
    THEN Verdict("warn", "git-filter-history",
           "git " \o subcommand
           \o " rewrites repository history. This is dangerous for shared repositories.")
    ELSE IF subcommand = "reflog" /\ Includes(args, "expire")
    THEN Verdict("warn", "git-reflog-expire",
           "git reflog expire can remove recovery data for lost commits.")
    ELSE IF subcommand = "gc"
            /\ (Includes(args, "--prune=now") \/ Includes(args, "--prune=all"))
    THEN Verdict("warn", "git-gc-prune",
           "git gc --prune=now immediately removes unreachable objects, reducing recovery options.")
    ELSE AllowVerdict

analyzeGitCommand(command, options) == GitRules(Words(command), command, options)

(***************************************************************************)
(* utils.ts: paths                                                         *)
(***************************************************************************)

\* os.homedir() of the process that runs the analysis
Home == "/home/agent"

RECURSIVE SplitOn(_, _, _)
\* s.split(sep) for a one-character separator; cur is the piece being read
SplitOn(s, sep, cur) ==
    IF s = "" THEN <<cur>>
    ELSE IF Head(s) = sep THEN <<cur>> \o SplitOn(Tail(s), sep, "")
    ELSE SplitOn(Tail(s), sep, cur \o Head(s))

RECURSIVE NormalizeSegments(_, _, _)
\* node:path normalizeString: drop empty and "." segments, let ".." remove
\* the segment before it (or keep it, above the root of a relative path)
NormalizeSegments(segs, out, allowAboveRoot) ==
    IF segs = <<>> THEN out
    ELSE LET seg == Head(segs) IN
         IF seg = "" \/ seg = "." THEN NormalizeSegments(Tail(segs), out, allowAboveRoot)
         ELSE IF seg = ".."
         THEN IF Len(out) > 0 /\ out[Len(out)] # ".."
              THEN NormalizeSegments(Tail(segs), SubSeq(out, 1, Len(out) - 1), allowAboveRoot)
              ELSE IF allowAboveRoot
              THEN NormalizeSegments(Tail(segs), Append(out, ".."), allowAboveRoot)
              ELSE NormalizeSegments(Tail(segs), out, allowAboveRoot)
         ELSE NormalizeSegments(Tail(segs), Append(out, seg), allowAboveRoot)

\* node:path (posix) normalize
PathNormalize(path) ==
    IF path = "" THEN "."
    ELSE LET isAbsolute == Head(path) = "/"
             trailing == Ch(path, Len(path)) = "/"
             body == JoinWords(NormalizeSegments(SplitOn(path, "/", ""), <<>>, ~isAbsolute), "/")
         IN IF body = ""
            THEN IF isAbsolute THEN "/" ELSE IF trailing THEN "./" ELSE "."
            ELSE (IF isAbsolute THEN "/" ELSE "") \o body \o (IF trailing THEN "/" ELSE "")

\* node:path (posix) resolve(cwd, path) for an absolute cwd
PathResolve(cwd, path) ==
    LET body == JoinWords(
            NormalizeSegments(SplitOn(cwd \o "/" \o path, "/", ""), <<>>, FALSE), "/")
    IN "/" \o body

normalizePath(path, cwd) ==
    LET expanded == IF StartsWith(path, "~") THEN Home \o Tail(path) ELSE path
        resolved == IF cwd # Undef /\ cwd # "" /\ ~StartsWith(expanded, "/")
                    THEN PathResolve(cwd, expanded)
                    ELSE expanded
    IN PathNormalize(resolved)

isUnderSafeRoot(path, safeRoots, cwd) ==
    LET normalizedPath == normalizePath(path, cwd) IN
    \E i \in 1..Len(safeRoots) :
        LET normalizedRoot == normalizePath(safeRoots[i], cwd) IN
        \/ StartsWith(normalizedPath, normalizedRoot \o "/")
        \/ normalizedPath = normalizedRoot

isDangerousPath(path, cwd) ==
    LET normalized == normalizePath(path, cwd)
        catastrophicPaths == {"/", Home, ".", ".."}
    IN \/ path \in catastrophicPaths
       \/ normalized \in catastrophicPaths
       \/ path = "~" \/ path = "$HOME"
       \/ path = "" \/ StartsWith(path, "-")

systemPrefixes ==
    {"/bin", "/sbin", "/usr", "/etc", "/var", "/lib", "/boot", "/dev", "/proc",
     "/sys", "/root", "/System", "/Library", "/Applications", "/Windows",
     "/Program Files"}

isSystemPath(path) ==
    LET normalized == normalizePath(path, Undef) IN
    \E prefix \in systemPrefixes :
        normalized = prefix \/ StartsWith(normalized, prefix \o "/")

(***************************************************************************)
(* rules/filesystem.ts                                                     *)
(***************************************************************************)

hasRecursiveForce(args) ==
    LET short(a) == StartsWith(a, "-") /\ ~StartsWith(a, "--")
        hasRecursive == \E i \in 1..Len(args) :
            IF short(args[i])
            THEN StrIncludes(args[i], "r") \/ StrIncludes(args[i], "R")
            ELSE args[i] \in {"--recursive", "-r", "-R"}
        hasForce == \E i \in 1..Len(args) :
            IF short(args[i])
            THEN StrIncludes(args[i], "f")
            ELSE args[i] \in {"--force", "-f"}
    IN hasRecursive /\ hasForce

hasNoPreserveRoot(args) == Includes(args, "--no-preserve-root")

RECURSIVE extractRmTargets(_)
\* every argument that does not start with a dash (skipNext is never set)
extractRmTargets(args) ==
    IF args = <<>> THEN <<>>
    ELSE (IF StartsWith(Head(args), "-") THEN <<>> ELSE <<Head(args)>>)
         \o extractRmTargets(Tail(args))

RECURSIVE RmTargetsVerdict(_, _, _)
\* The loop over the targets: the first verdict returned in it, or NoVerdict when
\* the loop ends without returning.
RmTargetsVerdict(targets, isRecursiveForce, options) ==
    IF targets = <<>> THEN NoVerdict
    ELSE LET target == Head(targets) IN
         IF isDangerousPath(target, Opt(options, "cwd"))
         THEN Verdict("deny", "rm-catastrophic-target",
                "rm targeting '" \o target \o "' would delete critical files/directories.")
         ELSE IF isSystemPath(target) /\ isRecursiveForce
         THEN Verdict("deny", "rm-system-path",
                "rm -rf targeting system path '" \o target \o "'.")
         ELSE IF (Truthy(options, "paranoid") \/ Truthy(options, "paranoidRm"))
                 /\ isRecursiveForce
         THEN IF Has(options, "tempRoots")
                 /\ isUnderSafeRoot(target, options.tempRoots, Opt(options, "cwd"))
              THEN RmTargetsVerdict(Tail(targets), isRecursiveForce, options)
              ELSE Verdict("deny", "rm-rf-paranoid",
                     "rm -rf '" \o target \o "' blocked in paranoid mode.")
         ELSE RmTargetsVerdict(Tail(targets), isRecursiveForce, options)

analyzeRmCommand(words, options) ==
    LET args == SliceFrom(words, 1)
        isRecursiveForce == hasRecursiveForce(args)
        targets == extractRmTargets(args)
        inLoop == RmTargetsVerdict(targets, isRecursiveForce, options)
    IN
    IF Includes(args, "-i") \/ Includes(args, "-I") \/ Includes(args, "--interactive")
    THEN AllowVerdict
    ELSE IF hasNoPreserveRoot(args)
    THEN Verdict("deny", "rm-no-preserve-root",
           "rm --no-preserve-root explicitly bypasses root protection.")
    ELSE IF Len(targets) = 0 /\ isRecursiveForce
    THEN Verdict("warn", "rm-rf-no-target", "rm -rf with no target path specified.")
    ELSE IF inLoop.decision # Undef THEN inLoop
    ELSE IF isRecursiveForce
    THEN Verdict("warn", "rm-rf",
           "rm -rf can permanently delete files. Targets: "
           \o (IF targets = <<>> THEN "(none)" ELSE JoinWords(targets, ", ")))
    ELSE AllowVerdict

isFindDangerousPath(path) == path \in {"/", "$HOME", "~"}

analyzeFindCommand(words, options) ==
    LET args == SliceFrom(words, 1)
        hasPath == \E i \in 1..Len(args) : ~StartsWith(args[i], "-")
        searchPath ==
            IF hasPath
            THEN args[CHOOSE i \in 1..Len(args) :
                        /\ ~StartsWith(args[i], "-")
                        /\ \A k \in 1..(i - 1) : StartsWith(args[k], "-")]
            ELSE Undef
    IN
    IF Includes(args, "-delete")
    THEN IF searchPath # Undef /\ searchPath # "" /\ isFindDangerousPath(searchPath)
         THEN Verdict("deny", "find-delete-dangerous",
                "find -delete on dangerous path '" \o searchPath \o "'.")
         ELSE Verdict("warn", "find-delete",
                "find -delete permanently removes matched files.")
    ELSE AllowVerdict

\* n.command.split(/\s+/) of a command joined from words by single spaces,
\* trimmed words aside: the pieces between whitespace runs
RECURSIVE SplitWhitespace(_, _)
SplitWhitespace(s, cur) ==
    IF s = "" THEN <<cur>>
    ELSE IF Head(s) \in Whitespace
    THEN <<cur>> \o SplitWhitespace(TrimStart(s), "")
    ELSE SplitWhitespace(Tail(s), cur \o Head(s))

\* The rule of analyzeXargsCommand over the extracted commands
XargsRule(nested, threw, options) ==
    LET hit == \E i \in 1..Len(nested) :
            /\ nested[i].type = "xargs"
            /\ StrIncludes(nested[i].command, "rm")
            /\ LET rmWords == SplitWhitespace(nested[i].command, "") IN
               rmWords[1] = "rm" /\ hasRecursiveForce(SliceFrom(rmWords, 1))
    IN
    IF threw THEN ThrewVerdict
    ELSE IF hit
    THEN Verdict(IF Truthy(options, "paranoid") \/ Truthy(options, "paranoidRm")
                 THEN "deny" ELSE "warn",
                 "xargs-rm-rf",
                 "xargs/parallel feeding input to rm -rf is dangerous.")
    ELSE AllowVerdict

NestedOf(tokens, options) ==
    XargsRule(extractNestedCommands(tokens), extractNestedCommandsThrows(tokens), options)

analyzeXargsCommand(words, command, options) == NestedOf(tokenize(command), options)

\* The rules of analyzeFilesystemCommand over the words of the command
FilesystemRules(words, command, options) ==
    LET cmd == At(words, 0)
    IN
    IF Len(words) = 0 THEN AllowVerdict
    ELSE IF cmd = "rm" THEN analyzeRmCommand(words, options)
    ELSE IF cmd = "find" THEN analyzeFindCommand(words, options)
    ELSE IF cmd = "xargs" \/ cmd = "parallel" THEN analyzeXargsCommand(words, command, options)
    ELSE AllowVerdict

analyzeFilesystemCommand(command, options) == FilesystemRules(Words(command), command, options)

(***************************************************************************)
(* rules/aws.ts                                                            *)
(***************************************************************************)

\* The table of destructive operations, keyed by service and subcommand.
AWS_DESTRUCTIVE_OPS ==
    (<<"s3", "rm">> :> [reason |-> "deletes S3 objects", severity |-> "warn"] @@
     <<"s3", "rb">> :> [reason |-> "removes S3 bucket", severity |-> "warn"] @@
     <<"s3api", "delete-object">> :> [reason |-> "deletes S3 object", severity |-> "warn"] @@
     <<"s3api", "delete-objects">> :> [reason |-> "bulk deletes S3 objects", severity |-> "warn"] @@
     <<"s3api", "delete-bucket">> :> [reason |-> "deletes S3 bucket", severity |-> "warn"] @@
     <<"ec2", "terminate-instances">> :> [reason |-> "terminates EC2 instances", severity |-> "deny"] @@
     <<"ec2", "delete-volume">> :> [reason |-> "deletes EBS volume", severity |-> "deny"] @@
     <<"ec2", "delete-snapshot">> :> [reason |-> "deletes EBS snapshot", severity |-> "warn"] @@
     <<"ec2", "delete-security-group">> :> [reason |-> "deletes security group", severity |-> "warn"] @@
     <<"ec2", "delete-key-pair">> :> [reason |-> "deletes key pair", severity |-> "warn"] @@
     <<"ec2", "delete-vpc">> :> [reason |-> "deletes VPC", severity |-> "deny"] @@
     <<"ec2", "delete-subnet">> :> [reason |-> "deletes subnet", severity |-> "warn"] @@
     <<"ec2", "delete-internet-gateway">> :> [reason |-> "deletes internet gateway", severity |-> "warn"] @@
     <<"ec2", "delete-nat-gateway">> :> [reason |-> "deletes NAT gateway", severity |-> "warn"] @@
     <<"rds", "delete-db-instance">> :> [reason |-> "deletes RDS database instance", severity |-> "deny"] @@
     <<"rds", "delete-db-cluster">> :> [reason |-> "deletes RDS cluster", severity |-> "deny"] @@
     <<"rds", "delete-db-snapshot">> :> [reason |-> "deletes RDS snapshot", severity |-> "warn"] @@
     <<"rds", "delete-db-cluster-snapshot">> :> [reason |-> "deletes RDS cluster snapshot", severity |-> "warn"] @@
     <<"iam", "delete-user">> :> [reason |-> "deletes IAM user", severity |-> "deny"] @@
     <<"iam", "delete-role">> :> [reason |-> "deletes IAM role", severity |-> "deny"] @@
     <<"iam", "delete-policy">> :> [reason |-> "deletes IAM policy", severity |-> "warn"] @@
     <<"iam", "delete-group">> :> [reason |-> "deletes IAM group", severity |-> "warn"] @@
     <<"iam", "delete-access-key">> :> [reason |-> "deletes access key", severity |-> "warn"] @@
     <<"lambda", "delete-function">> :> [reason |-> "deletes Lambda function", severity |-> "deny"] @@
     <<"lambda", "delete-layer-version">> :> [reason |-> "deletes Lambda layer version", severity |-> "warn"] @@
     <<"cloudformation", "delete-stack">> :> [reason |-> "deletes entire CloudFormation stack", severity |-> "deny"] @@
     <<"cloudformation", "delete-stack-set">> :> [reason |-> "deletes CloudFormation stack set", severity |-> "deny"] @@
     <<"dynamodb", "delete-table">> :> [reason |-> "deletes DynamoDB table", severity |-> "deny"] @@
     <<"dynamodb", "delete-backup">> :> [reason |-> "deletes DynamoDB backup", severity |-> "warn"] @@
     <<"kms", "schedule-key-deletion">> :> [reason |-> "schedules KMS key for deletion", severity |-> "deny"] @@
     <<"kms", "delete-alias">> :> [reason |-> "deletes KMS alias", severity |-> "warn"] @@
     <<"route53", "delete-hosted-zone">> :> [reason |-> "deletes DNS hosted zone", severity |-> "deny"] @@
     <<"secretsmanager", "delete-secret">> :> [reason |-> "deletes secret", severity |-> "warn"] @@
     <<"logs", "delete-log-group">> :> [reason |-> "deletes log group", severity |-> "warn"] @@
     <<"logs", "delete-log-stream">> :> [reason |-> "deletes log stream", severity |-> "warn"] @@
     <<"ecs", "delete-cluster">> :> [reason |-> "deletes ECS cluster", severity |-> "deny"] @@
     <<"ecs", "delete-service">> :> [reason |-> "deletes ECS service", severity |-> "warn"] @@
     <<"ecs", "deregister-task-definition">> :> [reason |-> "deregisters task definition", severity |-> "warn"] @@
     <<"eks", "delete-cluster">> :> [reason |-> "deletes EKS cluster", severity |-> "deny"] @@
     <<"eks", "delete-nodegroup">> :> [reason |-> "deletes EKS node group", severity |-> "warn"] @@
     <<"elasticache", "delete-cache-cluster">> :> [reason |-> "deletes ElastiCache cluster", severity |-> "deny"] @@
     <<"elasticache", "delete-replication-group">> :> [reason |-> "deletes ElastiCache replication group", severity |-> "deny"] @@
     <<"sns", "delete-topic">> :> [reason |-> "deletes SNS topic", severity |-> "warn"] @@
     <<"sqs", "delete-queue">> :> [reason |-> "deletes SQS queue", severity |-> "warn"] @@
     <<"sqs", "purge-queue">> :> [reason |-> "purges all messages from SQS queue", severity |-> "warn"] @@
     <<"cognito-idp", "delete-user-pool">> :> [reason |-> "deletes Cognito user pool", severity |-> "deny"] @@
     <<"apigateway", "delete-rest-api">> :> [reason |-> "deletes API Gateway REST API", severity |-> "deny"] @@
     <<"apigatewayv2", "delete-api">> :> [reason |-> "deletes API Gateway HTTP/WebSocket API", severity |-> "deny"])

checkS3SyncDelete(args) == Includes(args, "--delete")

hasDryRun(args) == Includes(args, "--dry-run") \/ Includes(args, "--dryrun")

hasRecursiveModifier(args) == Includes(args, "--recursive") \/ Includes(args, "-r")

hasSkipSnapshot(args) ==
    \/ Includes(args, "--skip-final-snapshot")
    \/ Includes(args, "--force")
    \/ Includes(args, "--force-delete")

\* options.paranoid || options.<paranoidField>
IsParanoid(options, paranoidField) ==
    Truthy(options, "paranoid") \/ Truthy(options, paranoidField)

\* The services and subcommands looked up are the table's own keys: a
\* service that names an inherited property of the table object is not
\* among the commands analysed here.
\* The rules of analyzeAwsCommand over the words of the command
AwsRules(words, command, options) ==
    LET service == At(words, 1)
        subcommand == At(words, 2)
        args == SliceFrom(words, 3)
        paranoid == IsParanoid(options, "paranoidAws")
    IN
    IF Len(words) < 3 \/ words[1] # "aws" THEN AllowVerdict
    ELSE IF hasDryRun(args) THEN AllowVerdict
    ELSE IF service = "s3" /\ subcommand = "sync" /\ checkS3SyncDelete(args)
    THEN Verdict(IF paranoid THEN "deny" ELSE "warn", "aws-s3-sync-delete",
           "aws s3 sync --delete removes objects not present in source.")
    ELSE IF service = "s3" /\ subcommand = "rm" /\ hasRecursiveModifier(args)
    THEN Verdict(IF paranoid THEN "deny" ELSE "warn", "aws-s3-rm-recursive",
           "aws s3 rm --recursive bulk deletes S3 objects.")
    ELSE IF service = "s3" /\ subcommand = "rb" /\ Includes(args, "--force")
    THEN Verdict("deny", "aws-s3-rb-force",
           "aws s3 rb --force removes bucket and ALL contents.")
    ELSE IF service = "route53" /\ subcommand = "change-resource-record-sets"
            /\ StrIncludes(command, "DELETE")
    THEN Verdict("warn", "aws-route53-delete-record",
           "aws route53 change-resource-record-sets with DELETE removes DNS records.")
    ELSE IF <<service, subcommand>> \in DOMAIN AWS_DESTRUCTIVE_OPS
    THEN LET opInfo == AWS_DESTRUCTIVE_OPS[<<service, subcommand>>]
             severity ==
                 IF service = "rds" /\ hasSkipSnapshot(args) THEN "deny"
                 ELSE IF paranoid /\ opInfo.severity = "warn" THEN "deny"
                 ELSE opInfo.severity
         IN Verdict(severity, "aws-" \o service \o "-" \o subcommand,
                "aws " \o service \o " " \o subcommand \o " " \o opInfo.reason \o ".")
    ELSE AllowVerdict

analyzeAwsCommand(command, options) == AwsRules(Words(command), command, options)

(***************************************************************************)
(* rules/pulumi.ts                                                         *)
(***************************************************************************)

hasPreviewFlag(args) == Includes(args, "--preview")

hasAutoApproveFlag(args) == Includes(args, "--yes") \/ Includes(args, "-y")

hasForceFlag(args) == Includes(args, "--force") \/ Includes(args, "-f")

\* The rules of analyzePulumiCommand over the words of the command
PulumiRules(words, command, options) ==
    LET subcommand == At(words, 1)
        subSubcommand == At(words, 2)
        args == SliceFrom(words, 2)
        stackArgs == SliceFrom(words, 3)
        soft == IF IsParanoid(options, "paranoidPulumi") THEN "deny" ELSE "warn"
    IN
    IF Len(words) < 2 \/ words[1] # "pulumi" THEN AllowVerdict
    ELSE IF subcommand = "destroy"
    THEN IF hasPreviewFlag(args) THEN AllowVerdict
         ELSE Verdict("deny", "pulumi-destroy",
                "pulumi destroy destroys all resources in the stack.")
    ELSE IF subcommand = "cancel"
    THEN Verdict(soft, "pulumi-cancel", "pulumi cancel may leave state inconsistent.")
    ELSE IF subcommand = "stack" /\ subSubcommand = "rm"
    THEN IF hasForceFlag(stackArgs) \/ hasAutoApproveFlag(stackArgs)
         THEN Verdict("deny", "pulumi-stack-rm-force",
                "pulumi stack rm with --force/--yes removes stack without confirmation.")
         ELSE Verdict(soft, "pulumi-stack-rm", "pulumi stack rm removes the stack.")
    ELSE IF subcommand = "state" /\ subSubcommand = "delete"
    THEN Verdict(soft, "pulumi-state-delete",
           "pulumi state delete removes resource from state.")
    ELSE IF subcommand = "up" /\ hasAutoApproveFlag(args)
    THEN Verdict(soft, "pulumi-up-yes",
           "pulumi up --yes deploys changes without interactive confirmation.")
    ELSE IF subcommand = "refresh" /\ hasAutoApproveFlag(args)
    THEN Verdict(soft, "pulumi-refresh-yes",
           "pulumi refresh --yes refreshes state without interactive confirmation.")
    ELSE AllowVerdict

analyzePulumiCommand(command, options) == PulumiRules(Words(command), command, options)

(***************************************************************************)
(* rules/stripe.ts                                                         *)
(***************************************************************************)

DESTRUCTIVE_VERBS == {"delete", "cancel", "void", "remove", "archive"}

MONEY_VERBS == {"refund", "capture", "pay", "payout", "transfer"}

MONEY_RESOURCES ==
    {"charges", "payment_intents", "invoices", "refunds", "payouts", "transfers"}

WRITE_VERBS == {"create", "update", "confirm", "send", "resend", "post"}

READ_VERBS == {"get", "list", "retrieve", "search"}

SAFE_COMMANDS ==
    {"listen", "logs", "login", "logout", "help", "version", "status", "config"}

BYPASS_FLAGS == {"--confirm", "--yes", "-y", "--force", "-f"}

IsLiveKey(key) == StartsWith(key, "sk_live_") \/ StartsWith(key, "rk_live_")

isLiveMode(args) ==
    \/ Includes(args, "--live")
    \/ \E i \in 1..Len(args) :
        \/ /\ args[i] \in {"--api-key", "-k"}
           /\ i + 1 <= Len(args)
           /\ IsLiveKey(args[i + 1])
        \/ /\ StartsWith(args[i], "--api-key=")
           /\ IsLiveKey(SubSeq(args[i], Len("--api-key=") + 1, Len(args[i])))

hasBypassFlag(args) == \E i \in 1..Len(args) : args[i] \in BYPASS_FLAGS

\* words[0] is stripe and there are at least two words
extractVerb(words) ==
    LET first == At(words, 1)
        second == At(words, 2)
    IN IF first \in READ_VERBS \cup SAFE_COMMANDS \cup {"post", "delete", "trigger"}
       THEN [verb |-> first, resource |-> second]
       ELSE IF second # Undef
       THEN [verb |-> second, resource |-> first]
       ELSE [verb |-> first, resource |-> Undef]

classifyVerb(verb, resource) ==
    IF verb = "" THEN "unknown"
    ELSE IF verb \in SAFE_COMMANDS THEN "safe"
    ELSE IF verb \in READ_VERBS THEN "read"
    ELSE IF verb \in DESTRUCTIVE_VERBS THEN "destructive"
    ELSE IF verb \in MONEY_VERBS THEN "money"
    ELSE IF resource # Undef /\ resource \in MONEY_RESOURCES
            /\ (verb \in WRITE_VERBS \/ verb = "post")
    THEN "money"
    ELSE IF verb \in WRITE_VERBS THEN "write"
    ELSE "unknown"

getDecision(verbType, isLive, hasBypass, paranoid) ==
    IF verbType \in {"read", "safe"} THEN "allow"
    ELSE IF verbType = "unknown"
    THEN IF isLive THEN (IF paranoid THEN "deny" ELSE "warn") ELSE "allow"
    ELSE IF verbType \in {"destructive", "money"}
    THEN IF isLive THEN "deny" ELSE IF paranoid THEN "deny" ELSE "warn"
    ELSE IF verbType = "write"
    THEN IF isLive /\ hasBypass THEN "deny"
         ELSE IF isLive THEN (IF paranoid THEN "deny" ELSE "warn")
         ELSE "allow"
    ELSE "allow"

\* buildReason of stripe.ts
stripeBuildReason(verb, resource, verbType, isLive, hasBypass) ==
    LET modeStr == IF isLive THEN "live mode" ELSE "test mode"
        bypassStr == IF hasBypass THEN " with confirmation bypass" ELSE ""
        resourceStr == IF resource # Undef THEN " on " \o resource ELSE ""
        head == "stripe " \o verb \o resourceStr
    IN IF verbType = "destructive"
       THEN head \o " is a destructive operation in " \o modeStr \o bypassStr \o "."
       ELSE IF verbType = "money"
       THEN head \o " involves money movement in " \o modeStr \o bypassStr \o "."
       ELSE IF verbType = "write"
       THEN head \o " modifies data in " \o modeStr \o bypassStr \o "."
       ELSE head \o " in " \o modeStr \o bypassStr \o "."

\* The rules of analyzeStripeCommand over the words of the command
StripeRules(words, command, options) ==
    LET args == SliceFrom(words, 1)
        ev == extractVerb(words)
        verbType == classifyVerb(ev.verb, ev.resource)
        isLive == isLiveMode(args)
        hasBypass == hasBypassFlag(args)
        paranoid == IsParanoid(options, "paranoidStripe")
        decision == getDecision(verbType, isLive, hasBypass, paranoid)
    IN
    IF Len(words) < 2 \/ words[1] # "stripe" THEN AllowVerdict
    ELSE IF ev.verb = "trigger" /\ isLive
    THEN Verdict(IF paranoid THEN "deny" ELSE "warn", "stripe-trigger-live",
           "stripe trigger in live mode may affect production systems.")
    ELSE IF decision = "allow" THEN AllowVerdict
    ELSE Verdict(decision,
           "stripe-" \o verbType \o (IF isLive THEN "-live" ELSE ""),
           stripeBuildReason(ev.verb, ev.resource, verbType, isLive, hasBypass))

analyzeStripeCommand(command, options) == StripeRules(Words(command), command, options)

(***************************************************************************)
(* rules/system.ts                                                         *)
(***************************************************************************)

CRITICAL_PIDS == {"1", "0"}

CRITICAL_PROCESSES ==
    {"init", "systemd", "launchd", "kernel", "kthreadd", "sshd", "dockerd"}

SigkillNames == {"9", "KILL", "SIGKILL"}

hasSigkill(args) ==
    \E i \in 1..Len(args) :
        \/ args[i] \in {"-9", "-KILL", "-SIGKILL"}
        \/ /\ args[i] = "-s"
           \* args.indexOf(arg): the first -s, and the argument after it
           /\ LET idx == IndexOfFrom(args, "-s", 1) IN
              idx + 1 <= Len(args) /\ args[idx + 1] \in SigkillNames
        \/ /\ StartsWith(args[i], "--signal=")
           /\ SubSeq(args[i], Len("--signal=") + 1, Len(args[i])) \in SigkillNames

RECURSIVE extractPids(_, _)
\* skipNext is the flag set by -s and -n
extractPids(args, skipNext) ==
    IF args = <<>> THEN <<>>
    ELSE IF skipNext THEN extractPids(Tail(args), FALSE)
    ELSE IF Head(args) = "-s" \/ Head(args) = "-n" THEN extractPids(Tail(args), TRUE)
    ELSE IF StartsWith(Head(args), "-") THEN extractPids(Tail(args), FALSE)
    ELSE IF Head(args) # "" THEN <<Head(args)>> \o extractPids(Tail(args), FALSE)
    ELSE extractPids(Tail(args), FALSE)

analyzeKillCommand(words, options) ==
    LET args == SliceFrom(words, 1)
        pids == extractPids(args, FALSE)
        critical == \E i \in 1..Len(pids) : pids[i] \in CRITICAL_PIDS
        pid == pids[CHOOSE i \in 1..Len(pids) :
                      pids[i] \in CRITICAL_PIDS
                      /\ \A k \in 1..(i - 1) : pids[k] \notin CRITICAL_PIDS]
    IN
    IF critical
    THEN Verdict("deny", "kill-critical-pid",
           "kill targeting critical PID " \o pid \o " (init/kernel).")
    ELSE IF hasSigkill(args)
    THEN Verdict(IF Truthy(options, "paranoid") THEN "deny" ELSE "warn",
           "kill-sigkill", "kill -9 (SIGKILL) forcefully terminates without cleanup.")
    ELSE AllowVerdict

IsCriticalProcess(target) ==
    \E p \in CRITICAL_PROCESSES : StrIncludes(ToLowerCase(target), p)

analyzeKillallCommand(words, options) ==
    LET cmd == words[1]
        args == SliceFrom(words, 1)
        targets == extractPids(args, FALSE)
        critical == \E i \in 1..Len(targets) : IsCriticalProcess(targets[i])
        target == targets[CHOOSE i \in 1..Len(targets) :
                      IsCriticalProcess(targets[i])
                      /\ \A k \in 1..(i - 1) : ~IsCriticalProcess(targets[k])]
    IN
    IF critical
    THEN Verdict("deny", cmd \o "-critical-process",
           cmd \o " targeting critical process '" \o target \o "'.")
    ELSE IF hasSigkill(args)
    THEN Verdict(IF Truthy(options, "paranoid") THEN "deny" ELSE "warn",
           cmd \o "-sigkill",
           cmd \o " -9 forcefully terminates multiple processes without cleanup.")
    ELSE IF Len(targets) > 0
    THEN Verdict("warn", cmd \o "-mass",
           cmd \o " terminates all processes matching '" \o JoinWords(targets, ", ") \o "'.")
    ELSE AllowVerdict

analyzePowerCommand(words, options) ==
    LET cmd == words[1]
        args == SliceFrom(words, 1)
    IN
    IF Includes(args, "-c") \/ Includes(args, "--cancel") THEN AllowVerdict
    ELSE IF Includes(args, "--help") \/ Includes(args, "-h") THEN AllowVerdict
    ELSE Verdict("deny", cmd \o "-power",
           cmd \o " will shut down or restart the system.")

analyzeInitCommand(words, options) ==
    LET args == SliceFrom(words, 1)
        dangerous == \E i \in 1..Len(args) : args[i] \in {"0", "6"}
        runlevel == args[CHOOSE i \in 1..Len(args) :
                           args[i] \in {"0", "6"}
                           /\ \A k \in 1..(i - 1) : args[k] \notin {"0", "6"}]
        action == IF runlevel = "0" THEN "shutdown" ELSE "reboot"
    IN
    IF dangerous
    THEN Verdict("deny", "init-" \o action,
           "init " \o runlevel \o " will " \o action \o " the system.")
    ELSE AllowVerdict

\* The rules of analyzeSystemCommand over the words of the command
SystemRules(words, command, options) ==
    LET cmd == At(words, 0)
    IN
    IF Len(words) = 0 THEN AllowVerdict
    ELSE IF cmd = "kill" THEN analyzeKillCommand(words, options)
    ELSE IF cmd \in {"killall", "pkill"} THEN analyzeKillallCommand(words, options)
    ELSE IF cmd \in {"shutdown", "reboot", "halt", "poweroff"}
    THEN analyzePowerCommand(words, options)
    ELSE IF cmd = "init" THEN analyzeInitCommand(words, options)
    ELSE AllowVerdict

analyzeSystemCommand(command, options) == SystemRules(Words(command), command, options)

(***************************************************************************)
(* rules/api.ts                                                            *)
(***************************************************************************)

CURL_DATA_FLAGS ==
    <<"-d", "--data", "--data-raw", "--data-binary", "--data-urlencode",
      "--data-ascii", "--json">>

CURL_METHOD_FLAGS == {"-X", "--request"}

UpperChar(c) ==
    IF IsLower(c)
    THEN Ch(UpperLetters, CHOOSE i \in 1..Len(LowerLetters) : Ch(LowerLetters, i) = c)
    ELSE c

RECURSIVE ToUpperCase(_)
\* String.prototype.toUpperCase
ToUpperCase(s) ==
    IF s = "" THEN "" ELSE UpperChar(Head(s)) \o ToUpperCase(Tail(s))

\* The first data flag f with word starting with f= or f: (0 when none)
DataFlagMatch(word) ==
    LET hit(k) == \/ StartsWith(word, CURL_DATA_FLAGS[k] \o "=")
                  \/ StartsWith(word, CURL_DATA_FLAGS[k] \o ":")
    IN IF \E k \in 1..Len(CURL_DATA_FLAGS) : hit(k)
       THEN CHOOSE k \in 1..Len(CURL_DATA_FLAGS) :
                hit(k) /\ \A m \in 1..(k - 1) : ~hit(m)
       ELSE 0

\* The effect of a data value on the parse result
WithData(res, data) ==
    [res EXCEPT
        !.data = data,
        !.method = IF res.method = "GET" THEN "POST" ELSE res.method,
        !.hasFileInput = res.hasFileInput \/ StartsWith(data, "@"),
        !.hasVariableInput = res.hasVariableInput \/ StrIncludes(data, "$")]

RECURSIVE ParseCurlFrom(_, _, _)
\* The while loop of parseCurlCommand from words[i] (1-based) on.
ParseCurlFrom(words, i, res) ==
    IF i > Len(words) \/ words[i] = "" THEN res
    ELSE LET word == words[i]
             next == IF i + 1 <= Len(words) THEN words[i + 1] ELSE Undef
             k == DataFlagMatch(word)
         IN
         IF word \in CURL_METHOD_FLAGS
         THEN ParseCurlFrom(words, i + 2,
                IF next # Undef /\ next # ""
                THEN [res EXCEPT !.method = ToUpperCase(next)] ELSE res)
         ELSE IF Includes(CURL_DATA_FLAGS, word)
         THEN ParseCurlFrom(words, i + 2,
                IF next # Undef /\ next # "" THEN WithData(res, next) ELSE res)
         ELSE IF k # 0
         THEN ParseCurlFrom(words, i + 1,
                WithData(res, SubSeq(word, Len(CURL_DATA_FLAGS[k]) + 2, Len(word))))
         ELSE IF StartsWith(word, "-") /\ ~StartsWith(word, "--") /\ Len(word) = 2
         THEN ParseCurlFrom(words, i + 2, res)
         ELSE IF StartsWith(word, "--") /\ ~StrIncludes(word, "=")
         THEN IF next # Undef /\ next # "" /\ ~StartsWith(next, "-")
              THEN ParseCurlFrom(words, i + 2, res)
              ELSE ParseCurlFrom(words, i + 1, res)
         ELSE IF ~StartsWith(word, "-") /\ res.url = Undef
         THEN ParseCurlFrom(words, i + 1, [res EXCEPT !.url = word])
         ELSE ParseCurlFrom(words, i + 1, res)

parseCurlCommand(words) ==
    ParseCurlFrom(words, 2,
        [url |-> Undef, method |-> "GET", data |-> Undef,
         hasFileInput |-> FALSE, hasVariableInput |-> FALSE])

RECURSIVE CollapseWhitespace(_)
\* body.replace of every whitespace run by one space
CollapseWhitespace(s) ==
    IF s = "" THEN ""
    ELSE IF Head(s) \in Whitespace THEN " " \o CollapseWhitespace(TrimStart(s))
    ELSE Head(s) \o CollapseWhitespace(Tail(s))

\* The body normalised for matching, lower-cased for the i flag
NormalizedBody(body) == ToLowerCase(Trim(CollapseWhitespace(body)))

IsQuote(c) == c = "\"" \/ c = "'"

\* The common head of the JSON patterns matched at index i: a quoted query,
\* optional whitespace, a colon, optional whitespace, a quote. The value is
\* the index after that quote, or 0 when the head does not match at i.
QueryKeyAt(n, i) ==
    IF IsQuote(Ch(n, i)) /\ Mid(n, i + 1, 5) = "query" /\ IsQuote(Ch(n, i + 6))
    THEN LET j == SkipWs(n, i + 7) IN
         IF Ch(n, j) = ":"
         THEN LET k == SkipWs(n, j + 1) IN IF IsQuote(Ch(n, k)) THEN k + 1 ELSE 0
         ELSE 0
    ELSE 0

isGraphQLMutation(body) ==
    LET n == NormalizedBody(body) IN
    \/ \E i \in 1..Len(n) :
          LET v == QueryKeyAt(n, i) IN
          /\ v # 0
          /\ LET m == SkipWs(n, v) IN
             Mid(n, m, 8) = "mutation" /\ Ch(n, m + 8) \in Whitespace \cup {"{"}
    \/ LET m == SkipWs(n, 1) IN
       Mid(n, m, 8) = "mutation" /\ Ch(n, m + 8) \in Whitespace \cup {"{"}
    \/ \E i \in 1..Len(n) :
          LET v == QueryKeyAt(n, i) IN
          v # 0 /\ Mid(n, v, 8) = "mutation" /\ IsQuote(Ch(n, v + 8))

isGraphQLQuery(body) ==
    LET n == NormalizedBody(body)
        jsonQuery == \E i \in 1..Len(n) :
            LET v == QueryKeyAt(n, i) IN
            /\ v # 0
            /\ LET m == SkipWs(n, v) IN
               Mid(n, m, 5) = "query" /\ Ch(n, m + 5) \in Whitespace
        jsonAnonymous == \E i \in 1..Len(n) :
            LET v == QueryKeyAt(n, i) IN
            v # 0 /\ Ch(n, SkipWs(n, v)) = "{"
        raw == LET m == SkipWs(n, 1) IN
            \/ (Mid(n, m, 5) = "query" /\ Ch(n, m + 5) \in Whitespace)
            \/ Ch(n, m) = "{"
    IN IF jsonQuery THEN TRUE
       ELSE IF jsonAnonymous THEN ~isGraphQLMutation(body)
       ELSE IF raw THEN ~isGraphQLMutation(body)
       ELSE FALSE

analyzeLinearRequest(parsed, options) ==
    LET paranoid == IsParanoid(options, "paranoidApi") IN
    IF parsed.hasFileInput \/ parsed.hasVariableInput
    THEN Verdict(IF paranoid THEN "deny" ELSE "warn", "api-linear-unanalyzable",
           "Linear API request with file/variable input cannot be fully analyzed.")
    ELSE IF parsed.data = Undef \/ parsed.data = "" THEN AllowVerdict
    ELSE IF isGraphQLMutation(parsed.data)
    THEN Verdict(IF paranoid THEN "deny" ELSE "warn", "api-linear-mutation",
           "Linear GraphQL mutation detected (creates/modifies data).")
    ELSE IF isGraphQLQuery(parsed.data) THEN AllowVerdict
    ELSE IF paranoid
    THEN Verdict("warn", "api-linear-unknown",
           "Linear API request type could not be determined.")
    ELSE AllowVerdict

analyzeDatadogRequest(parsed, options) ==
    IF parsed.method = "DELETE"
    THEN Verdict("deny", "api-datadog-delete",
           "Datadog API DELETE request (destructive operation).")
    ELSE IF parsed.method = "GET" THEN AllowVerdict
    ELSE IF parsed.method \in {"POST", "PUT", "PATCH"}
    THEN Verdict(IF IsParanoid(options, "paranoidApi") THEN "deny" ELSE "warn",
           "api-datadog-" \o ToLowerCase(parsed.method),
           "Datadog API " \o parsed.method \o " request (modifies data).")
    ELSE AllowVerdict

\* API_ENDPOINTS: the url patterns, matched without regard to case
IsLinearUrl(url) == StrIncludes(ToLowerCase(url), "api.linear.app")

IsDatadogUrl(url) ==
    LET u == ToLowerCase(url) IN
    \/ StrIncludes(u, "api.datadoghq.com") \/ StrIncludes(u, "api.datadoghq.eu")
    \/ StrIncludes(u, "app.datadoghq.com/api") \/ StrIncludes(u, "app.datadoghq.eu/api")

\* The rules of analyzeApiCommand over the words of the command
ApiRules(words, command, options) ==
    LET parsed == parseCurlCommand(words)
    IN
    IF Len(words) < 2 \/ words[1] # "curl" THEN AllowVerdict
    ELSE IF parsed.url = Undef THEN AllowVerdict
    ELSE IF IsLinearUrl(parsed.url) THEN analyzeLinearRequest(parsed, options)
    ELSE IF IsDatadogUrl(parsed.url) THEN analyzeDatadogRequest(parsed, options)
    ELSE AllowVerdict

analyzeApiCommand(command, options) == ApiRules(Words(command), command, options)

(***************************************************************************)
(* config.ts                                                               *)
(***************************************************************************)

\* process.env.<name>: undefined for a variable that is not set
Env(env, name) == IF name \in DOMAIN env THEN env[name] ELSE Undef

\* DEFAULT_TEMP_ROOTS: the four fixed roots and TMPDIR when it is set
DEFAULT_TEMP_ROOTS(env) ==
    <<"/tmp", "/var/tmp", "/private/tmp", "/private/var/tmp">>
    \o (IF Env(env, "TMPDIR") \notin {Undef, ""} THEN <<Env(env, "TMPDIR")>> ELSE <<>>)

parseBoolEnv(value) ==
    value = "1" \/ (value # Undef /\ ToLowerCase(value) = "true")

RECURSIVE TrimmedNonEmpty(_)
\* .map(s => s.trim()).filter(Boolean)
TrimmedNonEmpty(arr) ==
    IF arr = <<>> THEN <<>>
    ELSE (IF Trim(Head(arr)) # "" THEN <<Trim(Head(arr))>> ELSE <<>>)
         \o TrimmedNonEmpty(Tail(arr))

\* parseListEnv of a value that is set and not empty
parseListEnv(value) == TrimmedNonEmpty(SplitOn(value, ",", ""))

DigitValue(c) == (CHOOSE i \in 1..10 : Ch("0123456789", i) = c) - 1

RECURSIVE DigitsValue(_, _)
\* The value of the longest run of digits at the start of s, after acc
DigitsValue(s, acc) ==
    IF s # "" /\ Head(s) \in Digits
    THEN DigitsValue(Tail(s), 10 * acc + DigitValue(Head(s)))
    ELSE acc

\* Number.parseInt(value, 10): leading whitespace, an optional sign, then the
\* longest run of digits; NaN when there is no digit there
ParseInt(value) ==
    LET t == TrimStart(value)
        negative == Ch(t, 1) = "-"
        body == IF Ch(t, 1) \in {"-", "+"} THEN Tail(t) ELSE t
    IN [nan |-> Ch(body, 1) \notin Digits,
        n |-> IF negative THEN 0 - DigitsValue(body, 0) ELSE DigitsValue(body, 0)]

parseIntEnv(value, defaultValue) ==
    IF value = Undef \/ value = "" THEN defaultValue
    ELSE IF ParseInt(value).nan THEN defaultValue ELSE ParseInt(value).n

loadConfig(env) ==
    [strict |-> parseBoolEnv(Env(env, "SAFETY_NET_STRICT")),
     paranoid |-> parseBoolEnv(Env(env, "SAFETY_NET_PARANOID")),
     paranoidRm |-> parseBoolEnv(Env(env, "SAFETY_NET_PARANOID_RM")),
     paranoidAws |-> parseBoolEnv(Env(env, "SAFETY_NET_PARANOID_AWS")),
     disableGit |-> parseBoolEnv(Env(env, "SAFETY_NET_DISABLE_GIT")),
     disableRm |-> parseBoolEnv(Env(env, "SAFETY_NET_DISABLE_RM")),
     disableAws |-> parseBoolEnv(Env(env, "SAFETY_NET_DISABLE_AWS")),
     disablePulumi |-> parseBoolEnv(Env(env, "SAFETY_NET_DISABLE_PULUMI")),
     paranoidPulumi |-> parseBoolEnv(Env(env, "SAFETY_NET_PARANOID_PULUMI")),
     disableStripe |-> parseBoolEnv(Env(env, "SAFETY_NET_DISABLE_STRIPE")),
     paranoidStripe |-> parseBoolEnv(Env(env, "SAFETY_NET_PARANOID_STRIPE")),
     tempRoots |-> IF Env(env, "SAFETY_NET_TEMP_ROOTS") \in {Undef, ""}
                   THEN DEFAULT_TEMP_ROOTS(env)
                   ELSE parseListEnv(Env(env, "SAFETY_NET_TEMP_ROOTS")),
     maxRecursionDepth |-> parseIntEnv(Env(env, "SAFETY_NET_MAX_RECURSION_DEPTH"), 4),
     maxSegments |-> parseIntEnv(Env(env, "SAFETY_NET_MAX_SEGMENTS"), 64),
     bypass |-> parseBoolEnv(Env(env, "SAFETY_NET_BYPASS")),
     warnOnly |-> parseBoolEnv(Env(env, "SAFETY_NET_WARN_ONLY"))]

\* The fields mergeConfig copies
MergedFields ==
    {"cwd", "strict", "paranoid", "paranoidRm", "paranoidAws", "disableGit",
     "disableRm", "disableAws", "disablePulumi", "paranoidPulumi",
     "disableStripe", "paranoidStripe", "tempRoots", "maxRecursionDepth",
     "maxSegments", "bypass", "warnOnly"}

\* options.f ?? config.f for each copied field; a field neither object
\* defines is undefined in the result, and so is every field not copied
mergeConfig(options, config) ==
    [f \in {g \in MergedFields : Has(options, g) \/ Has(config, g)} |->
        IF Has(options, f) THEN options[f] ELSE config[f]]

(***************************************************************************)
(* analyzer.ts                                                             *)
(***************************************************************************)

FilesystemCommands ==
    {"rm", "rmdir", "shred", "truncate", "dd", "find", "xargs", "parallel"}

SystemCommands ==
    {"kill", "killall", "pkill", "shutdown", "reboot", "halt", "poweroff", "init"}

RECURSIVE FirstNotAllow(_)
\* The first verdict of the list that is not allow, or allow: each provider
\* whose condition holds returns at once unless its verdict is allow
FirstNotAllow(verdicts) ==
    IF verdicts = <<>> THEN AllowVerdict
    ELSE IF Head(verdicts).decision # "allow" THEN Head(verdicts)
    ELSE FirstNotAllow(Tail(verdicts))

\* The providers in the order of analyzeSegment, each under its condition
Providing(cmdName, segment, options) ==
    FirstNotAllow(<<
        IF ~Truthy(options, "disableGit") /\ cmdName = "git"
        THEN analyzeGitCommand(segment, options) ELSE AllowVerdict,
        IF ~Truthy(options, "disableRm")
           /\ (cmdName \in FilesystemCommands \/ StartsWith(cmdName, "mkfs"))
        THEN analyzeFilesystemCommand(segment, options) ELSE AllowVerdict,
        IF ~Truthy(options, "disableAws") /\ cmdName = "aws"
        THEN analyzeAwsCommand(segment, options) ELSE AllowVerdict,
        IF ~Truthy(options, "disablePulumi") /\ cmdName = "pulumi"
        THEN analyzePulumiCommand(segment, options) ELSE AllowVerdict,
        IF ~Truthy(options, "disableStripe") /\ cmdName = "stripe"
        THEN analyzeStripeCommand(segment, options) ELSE AllowVerdict,
        IF ~Truthy(options, "disableSystem") /\ cmdName \in SystemCommands
        THEN analyzeSystemCommand(segment, options) ELSE AllowVerdict,
        IF ~Truthy(options, "disableApi") /\ cmdName = "curl"
        THEN analyzeApiCommand(segment, options) ELSE AllowVerdict>>)

\* analyzeSegment after its call of getEffectiveCommand
SegmentVerdict(eff, segment, options) ==
    IF eff.threw THEN ThrewVerdict ELSE Providing(eff.command, segment, options)

\* The verdict of one segment; ThrewVerdict when getEffectiveCommand or a
\* provider throws
analyzeSegment(segment, options) ==
    SegmentVerdict(getEffectiveCommand(segment), segment, options)

\* Whether a list of verdicts records a throw
Thrown(results) == \E i \in 1..Len(results) : results[i].decision = Threw

\* The verdict of a nested command with the wrapper named in its reason
ViaWrapper(result, n) ==
    [result EXCEPT !.reason =
        "[via " \o n.wrapper \o "] " \o (IF result.reason = Undef THEN "" ELSE result.reason)]

\* A bound that lets one more level through
MaxDepthOneMore(options) ==
    IF Has(options, "maxRecursionDepth") THEN options.maxRecursionDepth + 1 ELSE 5

\* options.maxRecursionDepth ?? 4
MaxDepthOf(options) ==
    IF Has(options, "maxRecursionDepth") THEN options.maxRecursionDepth ELSE 4

\* Every kind of extracted command is looked into
RecursesAnyKind(n) == TRUE

\* n.type === "shell": the extracted command is looked into for commands
\* nested deeper
Recurses(n) == n.type = "shell"

RECURSIVE analyzeNested(_, _, _)
RECURSIVE NestedFrom(_, _, _, _)

\* The loop of analyzeNested over the extracted commands from the i-th on
NestedFrom(nested, i, options, depth) ==
    IF i > Len(nested) THEN <<>>
    ELSE LET n == nested[i]
             result == analyzeSegment(n.command, options)
         IN IF result.decision = Threw THEN <<ThrewVerdict>>
            ELSE (IF result.decision # "allow" THEN <<ViaWrapper(result, n)>> ELSE <<>>)
                 \o (IF Recurses(n)
                     THEN analyzeNested(n.command, options, depth + 1) ELSE <<>>)
                 \o NestedFrom(nested, i + 1, options, depth)

\* The verdicts of the nested commands; a ThrewVerdict in the list stands
\* for the propagating exception
analyzeNested(segment, options, depth) ==
    IF depth >= MaxDepthOf(options) THEN <<>>
    ELSE IF extractNestedCommandsThrows(tokenize(segment)) THEN <<ThrewVerdict>>
    ELSE NestedFrom(extractNestedCommands(tokenize(segment)), 1, options, depth)

Some(segments, decision) ==
    \E i \in 1..Len(segments) : segments[i].decision = decision

\* aggregateDecisions with the warn rule tried before the deny rule
aggregateDecisionsWarnFirst(segments, hasUnparseable, options) ==
    IF Some(segments, "warn") THEN "warn"
    ELSE IF Some(segments, "deny") THEN "deny"
    ELSE IF Truthy(options, "strict") /\ hasUnparseable THEN "deny"
    ELSE IF hasUnparseable THEN "warn"
    ELSE "allow"

aggregateDecisions(segments, hasUnparseable, options) ==
    IF Some(segments, "deny") THEN "deny"
    ELSE IF Truthy(options, "strict") /\ hasUnparseable THEN "deny"
    ELSE IF Some(segments, "warn") THEN "warn"
    ELSE IF hasUnparseable THEN "warn"
    ELSE "allow"

DenyMark == "[deny]"
WarnMark == "[warn]"

\* One line of the reason: the mark of the decision, then reason, else rule
ReasonLine(s) ==
    (IF s.decision = "deny" THEN DenyMark ELSE WarnMark) \o " "
    \o (IF s.reason \notin {Undef, ""} THEN s.reason
        ELSE IF s.rule \notin {Undef, ""} THEN s.rule
        ELSE "Unknown issue")

RECURSIVE ReasonLines(_)
\* segments.filter(not allow).map(line)
ReasonLines(segments) ==
    IF segments = <<>> THEN <<>>
    ELSE (IF Head(segments).decision # "allow"
          THEN <<ReasonLine(Head(segments))>> ELSE <<>>)
         \o ReasonLines(Tail(segments))

buildReason(segments, decision) ==
    IF ReasonLines(segments) = <<>>
    THEN IF decision = "allow" THEN "Command appears safe."
         ELSE "Unable to fully analyze command."
    ELSE JoinWords(ReasonLines(segments), "\n")

\* utils.ts: the command as logged
truncateCommand(command, maxLength) ==
    IF Len(command) <= maxLength THEN command
    ELSE SubSeq(command, 1, maxLength) \o "... [truncated]"

\* The limit of a loop that tests segmentCount > maxSegments
MaxSegmentsOneMore(options) ==
    (IF Has(options, "maxSegments") THEN options.maxSegments ELSE 64) + 1

\* mergedOptions.maxSegments ?? 64
MaxSegmentsOf(options) ==
    IF Has(options, "maxSegments") THEN options.maxSegments ELSE 64

\* The decision of the two synthetic verdicts
SyntheticDecision(options) == IF Truthy(options, "strict") THEN "deny" ELSE "warn"

TooManySegmentsVerdict(options) ==
    Verdict(SyntheticDecision(options), "too-many-segments",
        "Command has more than " \o ToString(MaxSegmentsOf(options)) \o " segments.")

UnparseableVerdict(options) ==
    Verdict(SyntheticDecision(options), "unparseable-construct",
        "Command contains constructs that cannot be fully analyzed (heredocs, process substitution, etc.).")

\* The list with the verdict pushed whatever it is
PushAlways(results, result) == Append(results, result)

\* The list with the verdict pushed when it is not allow
PushIfNotAllow(results, result) ==
    IF result.decision # "allow" THEN Append(results, result) ELSE results

\* The verdicts with the unparseable verdict left out
WithUnparseableDropped(results, unparseable, options) == results

\* if (unparseable) allResults.push(the unparseable verdict)
WithUnparseable(results, unparseable, options) ==
    IF unparseable THEN Append(results, UnparseableVerdict(options)) ELSE results

\* Finalize with the warnOnly modifier left out
FinalizeNoDowngrade(command, results, unparseable, options) ==
    LET all == WithUnparseable(results, unparseable, options)
        aggregated == aggregateDecisions(all, unparseable, options)
        finalDecision == IF Truthy(options, "bypass") THEN "allow" ELSE aggregated
    IN [decision |-> finalDecision,
        segments |-> all,
        reason |-> buildReason(all, finalDecision),
        command |-> command,
        truncatedCommand |-> truncateCommand(command, 200)]

\* The end of analyzeCommand, from the verdicts collected by the loop: the
\* unparseable verdict, the aggregation, the two modifiers and the reason
Finalize(command, results, unparseable, options) ==
    LET all == WithUnparseable(results, unparseable, options)
        aggregated == aggregateDecisions(all, unparseable, options)
        downgraded == IF Truthy(options, "warnOnly") /\ aggregated = "deny"
                      THEN "warn" ELSE aggregated
        finalDecision == IF Truthy(options, "bypass") THEN "allow" ELSE downgraded
    IN [decision |-> finalDecision,
        segments |-> all,
        reason |-> buildReason(all, finalDecision),
        command |-> command,
        truncatedCommand |-> truncateCommand(command, 200)]

\* What a call that threw leaves its caller with
ThrewResult ==
    [decision |-> Threw, segments |-> <<>>, reason |-> Undef,
     command |-> Undef, truncatedCommand |-> Undef]

RECURSIVE SegmentsFrom(_, _, _, _)
\* The for loop of analyzeCommand from the segment of index segmentCount on
\* (0-based): the verdicts collected, with a ThrewVerdict for a throw
SegmentsFrom(segments, segmentCount, results, options) ==
    IF segmentCount >= Len(segments) THEN results
    ELSE IF segmentCount >= MaxSegmentsOf(options)
    THEN Append(results, TooManySegmentsVerdict(options))
    ELSE LET seg == segments[segmentCount + 1].command
             result == analyzeSegment(seg, options)
         IN IF result.decision = Threw THEN <<ThrewVerdict>>
            ELSE SegmentsFrom(segments, segmentCount + 1,
                    PushIfNotAllow(results, result) \o analyzeNested(seg, options, 0),
                    options)

\* analyzeCommand as a function of the command, the explicit options and the
\* environment
analyzeCommand(command, options, env) ==
    LET mergedOptions == mergeConfig(options, loadConfig(env))
        results == SegmentsFrom(splitCommand(command), 0, <<>>, mergedOptions)
    IN IF Thrown(results) THEN ThrewResult
       ELSE Finalize(command, results, hasUnparseableConstructs(command), mergedOptions)

(***************************************************************************)
(* The calls checked: command texts, explicit options and environments     *)
(***************************************************************************)

\* The deepest nesting of shell wrappers in the commands, less one, and the
\* largest explicit maxRecursionDepth
MaxNest == 2

\* The longest chain of segments in the commands, less one, and the largest
\* explicit maxSegments
MaxSegs == 3

NoOptions == [f \in {} |-> TRUE]

RECURSIVE Escape(_)
\* The text as it is written between double quotes
Escape(c) ==
    IF c = "" THEN ""
    ELSE (IF Head(c) \in {"\"", "\\"} THEN "\\" ELSE "") \o Head(c) \o Escape(Tail(c))

Quote(c) == "\"" \o Escape(c) \o "\""

\* <shell> <flag> "c"
Wrap(shell, flag, c) == shell \o " " \o flag \o " " \o Quote(c)

\* The shells with each of their flags
ShellInvocations ==
    UNION {{<<sh, SHELL_WRAPPERS[sh][k]>> : k \in 1..Len(SHELL_WRAPPERS[sh])} :
        sh \in DOMAIN SHELL_WRAPPERS}

RECURSIVE NestedChain(_, _)
\* c under k shell wrappers, bash and sh in turn
NestedChain(k, c) ==
    IF k = 0 THEN c
    ELSE Wrap(IF k % 2 = 1 THEN "bash" ELSE "sh", "-c", NestedChain(k - 1, c))

RECURSIVE Chain(_, _)
\* n segments: n - 1 times ls, then last
Chain(n, last) == IF n <= 1 THEN last ELSE "ls; " \o Chain(n - 1, last)

\* One command per provider with a verdict that is not allow, the provider's
\* disable flag and the environment variable documented for it
Providers ==
    {[command |-> "git push -f", flag |-> "disableGit", var |-> "SAFETY_NET_DISABLE_GIT"],
     [command |-> "rm -rf b", flag |-> "disableRm", var |-> "SAFETY_NET_DISABLE_RM"],
     [command |-> "aws s3 rb b", flag |-> "disableAws", var |-> "SAFETY_NET_DISABLE_AWS"],
     [command |-> "pulumi destroy", flag |-> "disablePulumi", var |-> "SAFETY_NET_DISABLE_PULUMI"],
     [command |-> "stripe customers delete", flag |-> "disableStripe", var |-> "SAFETY_NET_DISABLE_STRIPE"],
     [command |-> "reboot", flag |-> "disableSystem", var |-> "SAFETY_NET_DISABLE_SYSTEM"],
     [command |-> "curl -X DELETE api.datadoghq.com", flag |-> "disableApi", var |-> "SAFETY_NET_DISABLE_API"]}

\* Simple commands: one word list, with or without assignments before it
SimpleCommands ==
    {p.command : p \in Providers}
    \cup {"rm -rf /", "ls", "kill -9 5", "git rebase", "FOO=1 rm -rf /", "xargs rm -rf"}

\* Texts the shell would not accept or that hold no command
MalformedCommands ==
    {"", " ", "echo \"ab", "echo 'ab", "ls \\", "(ls", "{ ls", "&&", ";", "ls |"}

UnparseableCommands == {"cat <<EOF", "cat <<EOF; rm -rf /", "diff <(ls) b"}

\* First words that name an inherited property of the wrapper tables
InheritedCommands == {"constructor x", "constructor", "__proto__ x"}

CompoundCommands ==
    {a \o op \o b : a \in {"ls", "rm -rf b"}, op \in {" && ", "; ", " | "},
                    b \in {"ls", "rm -rf /", "git rebase"}}

\* Commands for which the shell wrappers differ in nothing but the name
WrapSamples == {"rm -rf /", "git rebase", "ls"}

NestedChains == {NestedChain(k, c) : k \in 2..(MaxNest + 1), c \in {"rm -rf /", "ls"}}

WrappedCommands ==
    {Wrap(si[1], si[2], c) : si \in ShellInvocations, c \in WrapSamples}
    \cup {Wrap("bash", "-c", c) :
            c \in SimpleCommands \cup CompoundCommands \cup InheritedCommands}
    \cup NestedChains

\* The prefixes as they are written: timeout with its duration
PrefixForms == (STRIP_PREFIXES \ {"timeout"}) \cup {"timeout 5"}

PrefixedCommands ==
    {p \o " " \o c : p \in PrefixForms, c \in {"rm -rf /", Wrap("bash", "-c", "rm -rf /")}}

\* Prefixes with a flag, with a flag that takes a separate value, chains
\* of prefixes, and assignments
FlaggedPrefixForms ==
    {"sudo -E", "nice -n10", "sudo -u root", "nice -n 10", "ionice -c 3",
     "timeout -k 1 5", "sudo env", "sudo nice -n10 nohup", "FOO=1", "FOO=1 BAR=2",
     "env FOO=1", "FOO=1 sudo", "sudo FOO=1"}

StrippedForms == PrefixForms \cup FlaggedPrefixForms

FlaggedPrefixCommands == {p \o " rm -rf /" : p \in FlaggedPrefixForms}

\* A shell wrapper around rm -rf / in the template of xargs, of parallel
\* and of find -exec and in the code of an interpreter; rm -rf / itself
\* there
TemplateCommands ==
    {"xargs bash -c \"rm -rf /\"", "parallel sh -c \"rm -rf /\" ::: a",
     "find . -exec bash -c \"rm -rf /\" \\;", Wrap("python", "-c", Wrap("bash", "-c", "rm -rf /")),
     Wrap("bash", "-c", "xargs sh -c 'rm -rf /'"),
     "xargs -0 rm -rf /", "find . -exec rm -rf / \\;", Wrap("node", "-e", "rm -rf /")}

ChainedCommands ==
    {Chain(n, last) : n \in 2..(MaxSegs + 1), last \in {"ls", "rm -rf /"}}

Commands ==
    SimpleCommands \cup MalformedCommands \cup UnparseableCommands
    \cup InheritedCommands \cup CompoundCommands \cup WrappedCommands
    \cup PrefixedCommands \cup FlaggedPrefixCommands \cup TemplateCommands
    \cup ChainedCommands

\* Explicit options: the flags of the set given as true
Flags(S) == [f \in S |-> TRUE]

ModeOptions == {Flags(S) : S \in SUBSET {"strict", "warnOnly", "bypass"}}

DisableOptions == {Flags({p.flag}) : p \in Providers}

DepthOptions == {[maxRecursionDepth |-> d] : d \in 0..MaxNest}

SegmentOptions ==
    {[maxSegments |-> n] @@ Flags(S) : n \in 0..MaxSegs, S \in {{}, {"strict"}}}

\* Environments: no variable set, or one
Environments ==
    {NoOptions}
    \cup {[v \in {p.var} |-> "1"] : p \in Providers}
    \cup {[SAFETY_NET_STRICT |-> "true"], [SAFETY_NET_WARN_ONLY |-> "TRUE"],
          [SAFETY_NET_BYPASS |-> "1"], [SAFETY_NET_MAX_SEGMENTS |-> "2"],
          [SAFETY_NET_MAX_RECURSION_DEPTH |-> "1"]}

\* Explicit values that differ from what the environments below give: an
\* explicit false, an explicit 0, explicit limits
ExplicitOptions ==
    {NoOptions, [strict |-> FALSE], [bypass |-> FALSE], [warnOnly |-> FALSE],
     [disableRm |-> FALSE], [maxSegments |-> 0], [maxSegments |-> MaxSegs],
     [maxRecursionDepth |-> 0], [maxRecursionDepth |-> 1]}

\* Texts of an integer variable: integers, and texts that are no integer
IntegerTexts == {"2", " 1", "abc", "2x", "1.5", ""}

\* Environments that set one variable the explicit options above also set
OverrideEnvironments ==
    {[SAFETY_NET_STRICT |-> "true"], [SAFETY_NET_BYPASS |-> "1"],
     [SAFETY_NET_WARN_ONLY |-> "True"], [SAFETY_NET_DISABLE_RM |-> "1"],
     [SAFETY_NET_STRICT |-> "yes"]}
    \cup {[SAFETY_NET_MAX_SEGMENTS |-> t] : t \in IntegerTexts}
    \cup {[SAFETY_NET_MAX_RECURSION_DEPTH |-> t] : t \in IntegerTexts \cup {"-1"}}

\* Commands whose decision depends on the options above
ConfigCommands ==
    {"rm -rf /", "cat <<EOF", Chain(3, "rm -rf /"), NestedChain(2, "rm -rf /")}

\* Halves of commands joined with &&: allowed, denied, warned about, with
\* a heredoc, of two segments, and with a quote left open
AndHalves == {"ls", "rm -rf /", "xargs rm -rf", "cat <<EOF", "ls; ls", "echo \"a"}

\* The command A && B
Joined(a, b) == a \o " && " \o b

JoinedCommands == {Joined(a, b) : a \in AndHalves, b \in AndHalves}

\* The blocked examples of the coverage table of the README, by category,
\* completed with an argument where the table gives none (APIs and
\* Databases, which the table describes without a command, are left out)
ReadmeExamples ==
    [Filesystem |-> {"rm -rf /", "rm -rf ~"},
     Git |-> {"git reset --hard", "git push --force", "git clean -fd", "git stash clear"},
     Docker |-> {"docker system prune", "docker volume prune", "docker rm -f c",
                 "docker-compose down -v"},
     Kubernetes |-> {"kubectl delete namespace n", "kubectl drain n", "helm uninstall r"},
     Terraform |-> {"terraform destroy", "terraform apply -auto-approve",
                    "terraform state rm a"},
     AWS |-> {"aws ec2 terminate-instances --instance-ids i", "aws s3 rb --force s3://b",
              "aws s3 rm --recursive s3://b"},
     GoogleCloud |-> {"gcloud projects delete p", "gsutil rm -r gs://b"},
     Azure |-> {"az group delete", "az vm delete", "az storage account delete"},
     Pulumi |-> {"pulumi destroy", "pulumi stack rm --force"},
     Stripe |-> {"stripe refunds create --live"},
     GitHubCLI |-> {"gh repo delete", "gh release delete", "gh secret delete"},
     System |-> {"kill -9 1", "dd of=/dev/sda", "mkfs", "chmod 777 f", "shutdown"}]

ReadmeCommands == UNION {ReadmeExamples[category] : category \in DOMAIN ReadmeExamples}

\* The bodies enclosed in a group: the provider commands, wrapped and
\* prefixed commands, a compound, and two bodies with a closing bracket that
\* has no opening partner in them
GroupBodies ==
    {p.command : p \in Providers}
    \cup {"rm -rf /", "ls", "sudo rm -rf /", Wrap("bash", "-c", "rm -rf /"),
          "xargs rm -rf /", "ls; rm -rf /", "echo (a); rm -rf /",
          "case x in a) ;; esac; rm -rf /", "echo a) ; rm -rf /"}

GroupForms == {"subshell", "braces", "substitution"}

\* (c), { c; } and echo $(c)
Grouped(form, c) ==
    IF form = "subshell" THEN "(" \o c \o ")"
    ELSE IF form = "braces" THEN "{ " \o c \o "; }"
    ELSE "echo $(" \o c \o ")"

Openers == {"(", "{ "}

\* ls, then an opening bracket without a partner, ls and c
Opened(b, c) == "ls; " \o b \o "ls; " \o c

GroupCommands ==
    {Grouped(f, c) : f \in GroupForms, c \in GroupBodies}
    \cup {Opened(b, c) : b \in Openers, c \in GroupBodies}

RECURSIVE NameEnd(_, _)
\* The index of the last character of the first word of c
NameEnd(c, i) == IF i < Len(c) /\ Ch(c, i + 1) # " " THEN NameEnd(c, i + 1) ELSE i

\* The command name of a simple command and what follows it
NameOf(c) == SubSeq(c, 1, NameEnd(c, 1))
RestOf(c) == SubSeq(c, NameEnd(c, 1) + 1, Len(c))

Spellings == {"single", "double", "escaped", "path", "upper"}

\* The same command with its name spelled otherwise: between quotes, with
\* an escaped letter, with a path before it, in upper case
Respelled(spelling, c) ==
    (IF spelling = "single" THEN "'" \o NameOf(c) \o "'"
     ELSE IF spelling = "double" THEN "\"" \o NameOf(c) \o "\""
     ELSE IF spelling = "escaped"
     THEN Ch(c, 1) \o "\\" \o SubSeq(NameOf(c), 2, Len(NameOf(c)))
     ELSE IF spelling = "path" THEN "/usr/bin/" \o NameOf(c)
     ELSE ToUpperCase(NameOf(c)))
    \o RestOf(c)

SpelledCommands ==
    {Respelled(sp, p.command) : sp \in Spellings, p \in Providers}

Call(c, o, e) == [command |-> c, options |-> o, env |-> e]

\* The calls: every command under every mode; the provider commands under
\* every disable flag; the wrapped commands under every depth; the segmented
\* commands under every segment limit; a sample under every environment;
\* explicit values against values of the environment; the joined commands
\* and their halves with and without a segment limit; the examples of the
\* README, the grouped commands and the respelled commands under the
\* defaults
Calls ==
    {Call(c, o, NoOptions) : c \in Commands, o \in ModeOptions}
    \cup {Call(c, o, NoOptions) :
            c \in {p.command : p \in Providers}
                  \cup {Wrap("bash", "-c", p.command) : p \in Providers},
            o \in DisableOptions}
    \cup {Call(c, o, NoOptions) :
            c \in NestedChains \cup {Wrap("bash", "-c", "rm -rf /")},
            o \in DepthOptions}
    \cup {Call(c, o, NoOptions) :
            c \in ChainedCommands \cup {"", "ls", "rm -rf /", "cat <<EOF; rm -rf /"},
            o \in SegmentOptions}
    \cup {Call(c, o, e) :
            c \in {p.command : p \in Providers}
                  \cup {"cat <<EOF", Chain(3, "rm -rf /"), NestedChain(2, "rm -rf /")},
            o \in {NoOptions, Flags({"strict"})},
            e \in Environments}
    \cup {Call(c, o, e) :
            c \in ConfigCommands, o \in ExplicitOptions, e \in OverrideEnvironments}
    \cup {Call(c, o, e) :
            c \in JoinedCommands \cup AndHalves,
            o \in {NoOptions, Flags({"strict"})},
            e \in {NoOptions, [SAFETY_NET_MAX_SEGMENTS |-> "2"]}}
    \cup {Call(c, NoOptions, NoOptions) :
            c \in ReadmeCommands \cup GroupCommands \cup SpelledCommands}

(***************************************************************************)
(* analyzeCommand, step by step                                            *)
(***************************************************************************)

VARIABLES
    pc,               \* where the call is: idle, loop, nested, final, done, threw
    command,          \* the command being analyzed
    options,          \* the explicit options of the call
    env,              \* process.env at the call
    mergedOptions,    \* mergeConfig(options, loadConfig())
    unparseable,      \* hasUnparseableConstructs(command)
    commandSegments,  \* splitCommand(command)
    segmentCount,     \* the segments analyzed so far
    allResults,       \* the verdicts collected so far
    stack,            \* the activations of analyzeNested, the innermost last
    dispatched,       \* the texts handed to analyzeSegment, in order
    result,           \* the AnalysisResult returned
    steps             \* the steps the call has taken

vars ==
    <<pc, command, options, env, mergedOptions, unparseable, commandSegments,
      segmentCount, allResults, stack, dispatched, result, steps>>

\* The host adapters and the audit log (adapters/claude.ts,
\* adapters/opencode.ts, audit.ts)
VARIABLES
    hookpc,           \* where the hook is: idle, analyzing, returned, delivered
    entry,            \* the hook entry point that was called
    hookInput,        \* what the host passed to it
    analysis,         \* the AnalysisResult the hook got, if it analyzed
    response,         \* what the hook gave back to the host
    audit,            \* where the audit write of the call is
    auditLog,         \* the entries appended to the audit log
    stderr,           \* the lines written with console.error
    rejected          \* the errors that reached the caller of auditAsync

hookVars ==
    <<hookpc, entry, hookInput, analysis, response, audit, auditLog, stderr, rejected>>

\* The splitter, the detector and the tokenizer applied to one command text
\* (shell/splitter.ts, shell/parser.ts)
VARIABLES
    scanpc,           \* where the scan is: idle, splitting, split, tokenized
    scanCommand,      \* the command text scanned
    scanUnparseable,  \* hasUnparseableConstructs of it
    scanIndex,        \* the index of the for loop of splitCommand, from 1
    splitter,         \* the SplitterState of the loop
    emptyFlushes,     \* the operators matched while the current text was blank
    scanTokens        \* tokenize of each segment returned

scanVars ==
    <<scanpc, scanCommand, scanUnparseable, scanIndex, splitter, emptyFlushes,
      scanTokens>>

\* No call made yet, or none returned
NoResult ==
    [decision |-> Undef, segments |-> <<>>, reason |-> Undef,
     command |-> Undef, truncatedCommand |-> Undef]

\* Nothing given back yet
NoResponse == [kind |-> "none", reason |-> Undef]

Init ==
    /\ pc = "idle"
    /\ command = ""
    /\ options = NoOptions
    /\ env = NoOptions
    /\ mergedOptions = NoOptions
    /\ unparseable = FALSE
    /\ commandSegments = <<>>
    /\ segmentCount = 0
    /\ allResults = <<>>
    /\ stack = <<>>
    /\ dispatched = <<>>
    /\ result = NoResult
    /\ steps = 0
    /\ hookpc = "idle"
    /\ entry = "none"
    /\ hookInput = NoOptions
    /\ analysis = NoResult
    /\ response = NoResponse
    /\ audit = "none"
    /\ auditLog = <<>>
    /\ stderr = <<>>
    /\ rejected = <<>>
    /\ scanpc = "idle"
    /\ scanCommand = ""
    /\ scanUnparseable = FALSE
    /\ scanIndex = 1
    /\ splitter = SplitInit
    /\ emptyFlushes = 0
    /\ scanTokens = <<>>

\* An activation of analyzeNested: the extracted commands, the index of the
\* next one, the depth and the results collected
Frame(nested, depth) == [nested |-> nested, i |-> 1, depth |-> depth, results |-> <<>>]

\* A text handed to analyzeSegment: depth -1 for a segment, else the depth of
\* the activation of analyzeNested that handed it over
Dispatch(text, depth) == [text |-> text, depth |-> depth]

\* The first statements of analyzeCommand: the configuration is merged, the
\* command is scanned for unparseable constructs and split
Entered(call) ==
    /\ command' = call.command
    /\ options' = call.options
    /\ env' = call.env
    /\ mergedOptions' = mergeConfig(call.options, loadConfig(call.env))
    /\ unparseable' = hasUnparseableConstructs(call.command)
    /\ commandSegments' = splitCommand(call.command)
    /\ segmentCount' = 0
    /\ allResults' = <<>>
    /\ stack' = <<>>
    /\ dispatched' = <<>>
    /\ result' = NoResult
    /\ steps' = 0
    /\ pc' = "loop"

\* analyzeCommand is called
Enter(call) ==
    /\ pc = "idle"
    /\ Entered(call)
    /\ UNCHANGED <<hookVars, scanVars>>

\* The loop meets a segment past the limit: the synthetic verdict and break
TooManySegments ==
    /\ steps' = steps + 1
    /\ pc = "loop"
    /\ segmentCount < Len(commandSegments)
    /\ segmentCount >= MaxSegmentsOf(mergedOptions)
    /\ allResults' = Append(allResults, TooManySegmentsVerdict(mergedOptions))
    /\ pc' = "final"
    /\ UNCHANGED <<command, options, env, mergedOptions, unparseable,
                   commandSegments, segmentCount, stack, dispatched, result>>
    /\ UNCHANGED <<hookVars, scanVars>>

\* What the loop does with the verdict of a segment, then the call of
\* analyzeNested on the segment at depth 0: it returns at once at the depth
\* limit, throws, or starts its loop over the extracted commands
SegmentAnalyzed(seg, segResult, tokens) ==
    /\ dispatched' = Append(dispatched, Dispatch(seg, -1))
    /\ IF segResult.decision = Threw
       THEN /\ pc' = "threw"
            /\ UNCHANGED <<allResults, segmentCount, stack>>
       ELSE /\ allResults' = PushIfNotAllow(allResults, segResult)
            /\ IF 0 >= MaxDepthOf(mergedOptions)
               THEN /\ segmentCount' = segmentCount + 1
                    /\ pc' = "loop"
                    /\ UNCHANGED stack
               ELSE IF extractNestedCommandsThrows(tokens)
               THEN /\ pc' = "threw"
                    /\ UNCHANGED <<segmentCount, stack>>
               ELSE /\ stack' = <<Frame(extractNestedCommands(tokens), 0)>>
                    /\ pc' = "nested"
                    /\ UNCHANGED segmentCount

\* The segment the loop is at
CurrentSegment == commandSegments[segmentCount + 1].command

\* The loop analyzes the next segment and calls analyzeNested on it
AnalyzeSegment ==
    /\ steps' = steps + 1
    /\ pc = "loop"
    /\ segmentCount < Len(commandSegments)
    /\ segmentCount < MaxSegmentsOf(mergedOptions)
    /\ SegmentAnalyzed(CurrentSegment,
                       analyzeSegment(CurrentSegment, mergedOptions),
                       tokenize(CurrentSegment))
    /\ UNCHANGED <<command, options, env, mergedOptions, unparseable,
                   commandSegments, result>>
    /\ UNCHANGED <<hookVars, scanVars>>

\* The stack with its innermost activation replaced
WithTop(frames, frame) == [frames EXCEPT ![Len(frames)] = frame]

\* The innermost activation of analyzeNested
Top == stack[Len(stack)]

\* The activation after the verdict of its current command is recorded
Advanced(top, nResult) ==
    [top EXCEPT
        !.i = top.i + 1,
        !.results = IF nResult.decision # "allow"
                    THEN Append(top.results, ViaWrapper(nResult, top.nested[top.i]))
                    ELSE top.results]

\* What the loop of analyzeNested does with the verdict of the extracted
\* command n, then, for a shell wrapper, the call of analyzeNested on it one
\* level deeper
NestedAnalyzed(n, nResult, tokens) ==
    /\ dispatched' = Append(dispatched, Dispatch(n.command, Top.depth))
    /\ IF nResult.decision = Threw
       THEN pc' = "threw" /\ UNCHANGED stack
       ELSE IF ~Recurses(n) \/ Top.depth + 1 >= MaxDepthOf(mergedOptions)
       THEN pc' = "nested" /\ stack' = WithTop(stack, Advanced(Top, nResult))
       ELSE IF extractNestedCommandsThrows(tokens)
       THEN pc' = "threw" /\ UNCHANGED stack
       ELSE /\ pc' = "nested"
            /\ stack' = Append(WithTop(stack, Advanced(Top, nResult)),
                               Frame(extractNestedCommands(tokens), Top.depth + 1))

\* The loop of analyzeNested analyzes the next extracted command
AnalyzeNestedCommand ==
    /\ steps' = steps + 1
    /\ pc = "nested"
    /\ Top.i <= Len(Top.nested)
    /\ NestedAnalyzed(Top.nested[Top.i],
                      analyzeSegment(Top.nested[Top.i].command, mergedOptions),
                      tokenize(Top.nested[Top.i].command))
    /\ UNCHANGED <<command, options, env, mergedOptions, unparseable,
                   commandSegments, segmentCount, allResults, result>>
    /\ UNCHANGED <<hookVars, scanVars>>

\* analyzeNested returns: its results go to the activation that called it,
\* or to the loop of analyzeCommand, which then counts the segment
ReturnNested ==
    /\ steps' = steps + 1
    /\ pc = "nested"
    /\ stack[Len(stack)].i > Len(stack[Len(stack)].nested)
    /\ LET top == stack[Len(stack)]
           rest == SubSeq(stack, 1, Len(stack) - 1)
       IN IF rest = <<>>
          THEN /\ allResults' = allResults \o top.results
               /\ segmentCount' = segmentCount + 1
               /\ stack' = <<>>
               /\ pc' = "loop"
          ELSE /\ stack' = WithTop(rest,
                    [rest[Len(rest)] EXCEPT !.results = @ \o top.results])
               /\ pc' = "nested"
               /\ UNCHANGED <<allResults, segmentCount>>
    /\ UNCHANGED <<command, options, env, mergedOptions, unparseable,
                   commandSegments, dispatched, result>>
    /\ UNCHANGED <<hookVars, scanVars>>

\* After the loop: the unparseable verdict, the aggregation, the modifiers
\* and the reason; the result is returned
Finish ==
    /\ steps' = steps + 1
    /\ pc = "final" \/ (pc = "loop" /\ segmentCount >= Len(commandSegments))
    /\ result' = Finalize(command, allResults, unparseable, mergedOptions)
    /\ allResults' = result'.segments
    /\ pc' = "done"
    /\ UNCHANGED <<command, options, env, mergedOptions, unparseable,
                   commandSegments, segmentCount, stack, dispatched>>
    /\ UNCHANGED <<hookVars, scanVars>>

\* Nothing of a call is kept after it
Left ==
    /\ pc' = "idle"
    /\ command' = ""
    /\ options' = NoOptions
    /\ env' = NoOptions
    /\ mergedOptions' = NoOptions
    /\ unparseable' = FALSE
    /\ commandSegments' = <<>>
    /\ segmentCount' = 0
    /\ allResults' = <<>>
    /\ stack' = <<>>
    /\ dispatched' = <<>>
    /\ result' = NoResult
    /\ steps' = 0

\* The caller has the result or the exception
Leave ==
    /\ pc \in {"done", "threw"}
    /\ Left
    /\ UNCHANGED <<hookVars, scanVars>>

Step == TooManySegments \/ AnalyzeSegment \/ AnalyzeNestedCommand \/ ReturnNested \/ Finish

Next == (\E call \in Calls : Enter(call)) \/ Step \/ Leave

Spec == Init /\ [][Next]_vars

\* A call is under way: entered, neither returned nor ended by an exception
Running == pc \in {"loop", "nested", "final"}

\* A call under way takes one more step
Proceed == Running /\ steps' = steps + 1

\* analyzeCommand is one synchronous function: a call under way is never
\* suspended between two steps. Every step of Step is a step of Proceed and
\* Step is enabled in every state of a call under way.
FairSpec == Spec /\ WF_steps(Proceed)

\* The step-by-step call returns what analyzeCommand computes
StepsAgree ==
    pc = "done" => result = analyzeCommand(command, options, env)

ThrowsAgree ==
    pc = "threw" => analyzeCommand(command, options, env).decision = Threw

(***************************************************************************)
(* The claims                                                              *)
(***************************************************************************)

\* The order allow < warn < deny
Rank(decision) == IF decision = "deny" THEN 2 ELSE IF decision = "warn" THEN 1 ELSE 0

\* The most severe decision among the verdicts, allow when there is none
Severest(segments) ==
    IF Some(segments, "deny") THEN "deny"
    ELSE IF Some(segments, "warn") THEN "warn"
    ELSE "allow"

\* A call has returned its result
Returned == pc = "done"

\* C1: with warnOnly and bypass off, the decision returned is deny if any
\* collected verdict is deny; else deny if strict and unparseable; else warn
\* if any verdict is warn; else warn if unparseable; else allow. It is also
\* the most severe of the collected verdicts.
C1_AggregationOrder ==
    (Returned /\ ~Truthy(mergedOptions, "warnOnly") /\ ~Truthy(mergedOptions, "bypass"))
    => /\ result.decision =
            (IF Some(result.segments, "deny") THEN "deny"
             ELSE IF Truthy(mergedOptions, "strict") /\ unparseable THEN "deny"
             ELSE IF Some(result.segments, "warn") THEN "warn"
             ELSE IF unparseable THEN "warn"
             ELSE "allow")
       /\ result.decision = Severest(result.segments)

\* A call without modifiers that collected a deny and a warn and returned deny
C1_Witness ==
    /\ Returned
    /\ ~Truthy(mergedOptions, "warnOnly") /\ ~Truthy(mergedOptions, "bypass")
    /\ ~Truthy(mergedOptions, "strict") /\ unparseable
    /\ Some(result.segments, "deny") /\ Some(result.segments, "warn")
    /\ result.decision = "deny"

\* C2: with warnOnly on the decision returned is never deny: a deny is
\* returned as warn, warn and allow are returned as they are. With bypass on
\* the decision returned is allow whatever the verdicts, the unparseable
\* flag, strict and warnOnly are.
C2_Overrides ==
    Returned =>
        /\ Truthy(mergedOptions, "bypass") => result.decision = "allow"
        /\ Truthy(mergedOptions, "warnOnly") => result.decision # "deny"
        /\ (Truthy(mergedOptions, "warnOnly") /\ ~Truthy(mergedOptions, "bypass"))
           => result.decision =
                (IF Severest(result.segments) = "deny" THEN "warn"
                 ELSE Severest(result.segments))

\* A call with warnOnly on and bypass off that collected a deny and returned
\* warn
C2_Witness ==
    /\ Returned
    /\ Truthy(mergedOptions, "warnOnly") /\ ~Truthy(mergedOptions, "bypass")
    /\ Some(result.segments, "deny")
    /\ result.decision = "warn"

\* The label analyzeNested puts before the reason of a nested verdict
ViaLabel(shell, flag) == "[via " \o shell \o " " \o flag \o "] "

\* Whether the verdicts hold one with this decision and this reason
Records(segments, decision, reason) ==
    \E k \in 1..Len(segments) :
        segments[k].decision = decision /\ segments[k].reason = reason

\* C3: for every shell wrapper with its -c family flag and every simple
\* command c for which the rule dispatcher returns a verdict v that is not
\* allow, the call for <shell> <flag> "c" with maxRecursionDepth >= 1 records
\* a verdict with the decision of v whose reason is the reason of v after
\* the label [via <shell> <flag>].
C3_ShellWrapperVerdict ==
    \A si \in ShellInvocations : \A c \in SimpleCommands :
        LET v == analyzeSegment(c, mergedOptions) IN
        (/\ Returned
         /\ command = Wrap(si[1], si[2], c)
         /\ MaxDepthOf(mergedOptions) >= 1
         /\ v.decision \notin {"allow", Threw})
        => Records(result.segments, v.decision, ViaLabel(si[1], si[2]) \o v.reason)

\* C4: wrapping never lowers the verdict. For every command text c, compound
\* texts included, and every shell wrapper within the recursion bound, the
\* decision returned for <shell> <flag> "c" is at least as severe as the
\* decision returned for c under the same options and environment.
C4_WrappingNeverLowers ==
    \A si \in ShellInvocations : \A c \in SimpleCommands \cup CompoundCommands :
        LET plain == analyzeCommand(c, options, env) IN
        (/\ Returned
         /\ command = Wrap(si[1], si[2], c)
         /\ MaxDepthOf(mergedOptions) >= 1
         /\ plain.decision # Threw)
        => Rank(result.decision) >= Rank(plain.decision)

\* C5: extraction is keyed on the effective command name. For every
\* strippable prefix p and every shell wrapper, p <shell> <flag> "c" yields
\* the nested commands of <shell> <flag> "c", and the call for it returns the
\* verdicts and the decision of the call for <shell> <flag> "c".
C5_ExtractionAfterStripping ==
    \A p \in PrefixForms :
        LET wrapped == Wrap("bash", "-c", "rm -rf /")
            plain == analyzeCommand(wrapped, options, env)
        IN (Returned /\ command = p \o " " \o wrapped)
           => /\ extractNestedCommands(tokenize(command))
                    = extractNestedCommands(tokenize(wrapped))
              /\ result.segments = plain.segments
              /\ result.decision = plain.decision

\* C6: the recursion over nested commands terminates and the call returns a
\* result. Whatever the command and maxRecursionDepth, a call that has begun
\* the analysis of the nested commands of a segment comes to return its
\* result.
C6_CallReturns == (pc = "nested") ~> Returned

\* The texts handed to analyzeSegment as segments of the command, in order
SegmentsDispatched == SelectSeq(dispatched, LAMBDA d : d.depth = -1)

\* The verdicts of the result with this rule
WithRule(rule) == SelectSeq(result.segments, LAMBDA v : v.rule = rule)

\* C7: when splitCommand yields more than maxSegments segments, exactly the
\* first maxSegments segments are analyzed, no later segment is dispatched
\* and exactly one verdict with the rule too-many-segments is recorded, warn
\* or deny in strict mode, so that the decision is not allow unless bypass is
\* on. When the segment count is at most maxSegments no such verdict is
\* recorded.
C7_TooManySegments ==
    Returned =>
        LET count == Len(commandSegments)
            maxSegments == mergedOptions.maxSegments
            synthetic == WithRule("too-many-segments")
        IN IF count > maxSegments
           THEN /\ Len(SegmentsDispatched) = maxSegments
                /\ \A k \in 1..maxSegments :
                      SegmentsDispatched[k].text = commandSegments[k].command
                /\ Len(synthetic) = 1
                /\ synthetic[1].decision =
                      (IF Truthy(mergedOptions, "strict") THEN "deny" ELSE "warn")
                /\ ~Truthy(mergedOptions, "bypass") => result.decision # "allow"
           ELSE /\ synthetic = <<>>
                /\ Len(SegmentsDispatched) = count

\* A call with three segments and maxSegments 2 has returned: the two ls were
\* analyzed, rm -rf / was not, and the decision is the warn of the synthetic
\* verdict
C7_Witness ==
    /\ Returned
    /\ command = Chain(3, "rm -rf /")
    /\ mergedOptions.maxSegments = 2
    /\ Len(SegmentsDispatched) = 2
    /\ Len(result.segments) = 1
    /\ result.decision = "warn"

\* C8: unparseable constructs are never silently ignored. For every command
\* for which hasUnparseableConstructs is true, with bypass off, the result
\* holds a verdict with the rule unparseable-construct, the decision is at
\* least warn, and in strict mode it is deny, or warn when warnOnly is on too.
C8_UnparseableNotIgnored ==
    (Returned /\ hasUnparseableConstructs(command) /\ ~Truthy(mergedOptions, "bypass"))
    => /\ WithRule("unparseable-construct") # <<>>
       /\ Rank(result.decision) >= 1
       /\ Truthy(mergedOptions, "strict")
          => result.decision =
                (IF Truthy(mergedOptions, "warnOnly") THEN "warn" ELSE "deny")

\* The call for cat <<EOF in strict mode has returned deny
C8_Witness ==
    /\ Returned
    /\ command = "cat <<EOF"
    /\ Truthy(mergedOptions, "strict")
    /\ ~Truthy(mergedOptions, "warnOnly") /\ ~Truthy(mergedOptions, "bypass")
    /\ result.decision = "deny"
    /\ Len(WithRule("unparseable-construct")) = 1

\* The value of the last token of a command
LastTokenValue(text) == tokenize(text)[Len(tokenize(text))].value

\* C9: analyzeCommand never raises, whatever the command text: no call ends
\* with an exception. An unterminated quote yields a token that holds the
\* partial content, and empty input yields an empty token list and an allow
\* result.
C9_NeverRaises ==
    /\ pc # "threw"
    /\ LastTokenValue("echo \"ab") = "ab" /\ LastTokenValue("echo 'ab") = "ab"
    /\ tokenize("") = <<>>
    /\ (Returned /\ command = "") => result.decision = "allow"

\* C10: a provider disabled by configuration is skipped. For every category
\* of rules, in a call made with the disable flag of the category every
\* command of the category is allowed, and the commands of the other
\* categories get the decision they get without the flag.
C10_DisabledProviderSkipped ==
    \A p \in Providers : \A q \in Providers :
        (Returned /\ options = Flags({p.flag}) /\ env = NoOptions
            /\ command = q.command)
        => result.decision =
              (IF q = p THEN "allow"
               ELSE analyzeCommand(q.command, NoOptions, NoOptions).decision)

\* Whether a text is an integer: an optional sign and digits, nothing else
\* but white space around them
IsIntegerText(s) ==
    LET t == Trim(s)
        body == IF t # "" /\ Head(t) \in {"-", "+"} THEN Tail(t) ELSE t
    IN body # "" /\ \A i \in 1..Len(body) : Ch(body, i) \in Digits

\* The integer options with their variables and built-in defaults
IntegerSettings ==
    {[field |-> "maxRecursionDepth", var |-> "SAFETY_NET_MAX_RECURSION_DEPTH", default |-> 4],
     [field |-> "maxSegments", var |-> "SAFETY_NET_MAX_SEGMENTS", default |-> 64]}

\* The value the environment gives an integer option: the integer its
\* variable holds, the default when it is not set or holds no integer
IntegerFromEnv(setting) ==
    LET text == Env(env, setting.var) IN
    IF text # Undef /\ IsIntegerText(text) THEN ParseInt(text).n ELSE setting.default

\* C11: for every option an explicit value, an explicit false or 0 included,
\* takes precedence over the value derived from the environment, which is
\* used only when the option is absent; an integer override that is not an
\* integer falls back to the built-in default, 4 or 64.
C11_ConfigResolution ==
    pc # "idle" =>
        /\ \A f \in MergedFields \ {s.field : s \in IntegerSettings} :
              IF Has(options, f) THEN mergedOptions[f] = options[f]
              ELSE IF Has(loadConfig(env), f) THEN mergedOptions[f] = loadConfig(env)[f]
              ELSE ~Has(mergedOptions, f)
        /\ \A s \in IntegerSettings :
              mergedOptions[s.field] =
                  (IF Has(options, s.field) THEN options[s.field] ELSE IntegerFromEnv(s))

(***************************************************************************)
(* The host adapters (adapters/claude.ts, adapters/opencode.ts) and the    *)
(* audit log (audit.ts)                                                    *)
(***************************************************************************)

\* What a hook gives back: kind is allow, ask or deny (permissionDecision of
\* the Claude hook, status of permission.ask; for tool.execute.before deny
\* is the Error thrown), pass when the handler returns and leaves the
\* output of the host as it was, error when the analysis threw
Response(kind, reason) == [kind |-> kind, reason |-> reason]

BlockedPrefix == "BLOCKED by Safety Net\n\n"

\* adapters/claude.ts: the output of the hook for a result (systemMessage,
\* which repeats the reason of a warn, is left out)
mapDecision(r) ==
    IF r.decision = "deny" THEN Response("deny", BlockedPrefix \o r.reason)
    ELSE IF r.decision = "warn" THEN Response("ask", r.reason)
    ELSE Response("allow", Undef)

\* permission.ask: the status written to the output
PermissionStatus(r) ==
    IF r.decision = "deny" THEN Response("deny", Undef)
    ELSE IF r.decision = "warn" THEN Response("ask", Undef)
    ELSE Response("allow", Undef)

\* tool.execute.before: the Error thrown for a deny, else a plain return
ExecuteBeforeOutcome(r) ==
    IF r.decision = "deny" THEN Response("deny", BlockedPrefix \o r.reason)
    ELSE Response("pass", Undef)

\* !command || typeof command !== "string", for an object args that holds
\* a string under command or nothing
NoCommand(args) == "command" \notin DOMAIN args \/ args.command = ""

\* writeAuditLog up to its first await: nothing for an allow, else mkdir of
\* the audit directory is under way
writeAuditLog(r) == IF r.decision = "allow" THEN "skipped" ELSE "mkdir"

\* What the hook called gives back for a result
OutcomeOf(e, r) ==
    IF e = "claude" THEN mapDecision(r)
    ELSE IF e = "permission.ask" THEN PermissionStatus(r)
    ELSE ExecuteBeforeOutcome(r)

\* The hook has the result of analyzeCommand, or its exception: it calls
\* auditAsync and gives back the outcome
Analyzed(e, r) ==
    /\ analysis' = r
    /\ IF r.decision = Threw
       THEN response' = Response("error", Threw) /\ audit' = "none"
       ELSE response' = OutcomeOf(e, r) /\ audit' = writeAuditLog(r)

\* The handler returns without analysis
PassedThrough(outcome) ==
    /\ analysis' = NoResult
    /\ response' = outcome
    /\ audit' = "none"
    /\ hookpc' = "returned"
    /\ UNCHANGED vars

\* The handler calls analyzeCommand(text, { cwd })
Analyze(text, cwd, environment) ==
    /\ Entered(Call(text, [cwd |-> cwd], environment))
    /\ hookpc' = "analyzing"
    /\ UNCHANGED <<analysis, response, audit>>

\* A hook is called: which one, with what, under which process.env
HookCall(e, input, environment) == [entry |-> e, input |-> input, env |-> environment]

\* processClaudeHook up to its call of analyzeCommand
ProcessClaudeHook(input, environment) ==
    /\ hookpc = "idle"
    /\ entry' = "claude"
    /\ hookInput' = HookCall("claude", input, environment)
    /\ IF input.tool_name # "Bash" \/ NoCommand(input.tool_input)
       THEN PassedThrough(Response("allow", Undef))
       ELSE Analyze(input.tool_input.command, input.cwd, environment)
    /\ UNCHANGED <<auditLog, stderr, rejected>>
    /\ UNCHANGED scanVars

\* The permission.ask hook of the plugin created for the directory, up to
\* its call of analyzeCommand
PermissionAsk(permission, directory, environment) ==
    /\ hookpc = "idle"
    /\ entry' = "permission.ask"
    /\ hookInput' = HookCall("permission.ask", permission, environment)
    /\ IF permission.type # "bash"
       THEN PassedThrough(Response("pass", Undef))
       ELSE Analyze(permission.pattern, directory, environment)
    /\ UNCHANGED <<auditLog, stderr, rejected>>
    /\ UNCHANGED scanVars

\* The tool.execute.before hook of the plugin created for the directory, up
\* to its call of analyzeCommand
ToolExecuteBefore(input, directory, environment) ==
    /\ hookpc = "idle"
    /\ entry' = "tool.execute.before"
    /\ hookInput' = HookCall("tool.execute.before", input, environment)
    /\ IF (input.tool # "bash" /\ input.tool # "shell") \/ NoCommand(input.args)
       THEN PassedThrough(Response("pass", Undef))
       ELSE Analyze(input.args.command, directory, environment)
    /\ UNCHANGED <<auditLog, stderr, rejected>>
    /\ UNCHANGED scanVars

\* analyzeCommand is over: the rest of the handler, which calls auditAsync
\* and returns or throws
HookReturns ==
    /\ hookpc = "analyzing"
    /\ pc \in {"done", "threw"}
    /\ Analyzed(entry, IF pc = "threw" THEN ThrewResult ELSE result)
    /\ hookpc' = "returned"
    /\ Left
    /\ UNCHANGED <<entry, hookInput, auditLog, stderr, rejected>>
    /\ UNCHANGED scanVars

\* The session id the hook passes to auditAsync
SessionOf(call) ==
    IF call.entry = "claude" THEN call.input.session_id
    ELSE IF call.entry = "permission.ask" /\ "sessionID" \in DOMAIN call.input
    THEN call.input.sessionID
    ELSE Undef

\* The entry writeAuditLog appends (timestamp, cwd and the redacted texts
\* are left out)
AuditEntry(r, sessionId) ==
    [sessionId |-> sessionId, decision |-> r.decision, reason |-> r.reason]

\* The catch of writeAuditLog: the error goes to console.error and the
\* promise resolves, so nothing reaches the catch of auditAsync or its caller
CatchRethrows(error) ==
    [stderr |-> <<>>, rejected |-> <<error>>]

CatchAuditError(error) ==
    [stderr |-> <<"[safety-net] Audit log error: " \o error>>, rejected |-> <<>>]

\* The audit write fails at the stage it is in
AuditFails(stage, caught) ==
    /\ audit' = "failed at " \o stage
    /\ stderr' = stderr \o caught.stderr
    /\ rejected' = rejected \o caught.rejected
    /\ UNCHANGED auditLog

\* The error codes mkdir and appendFile end with, ok for none
MkdirOutcomes == {"ok", "EEXIST", "EACCES"}
AppendOutcomes == {"ok", "ENOSPC"}

\* ensureAuditDir settles: EEXIST is ignored, any other error is thrown to
\* the catch of writeAuditLog; else appendFile is under way
MkdirSettles(outcome) ==
    /\ audit = "mkdir"
    /\ IF outcome \in {"ok", "EEXIST"}
       THEN audit' = "append" /\ UNCHANGED <<auditLog, stderr, rejected>>
       ELSE AuditFails("mkdir", CatchAuditError(outcome))
    /\ UNCHANGED <<hookpc, entry, hookInput, analysis, response>>
    /\ UNCHANGED vars
    /\ UNCHANGED scanVars

\* appendFile settles
AppendSettles(outcome) ==
    /\ audit = "append"
    /\ IF outcome = "ok"
       THEN /\ audit' = "written"
            /\ auditLog' = Append(auditLog, AuditEntry(analysis, SessionOf(hookInput)))
            /\ UNCHANGED <<stderr, rejected>>
       ELSE AuditFails("append", CatchAuditError(outcome))
    /\ UNCHANGED <<hookpc, entry, hookInput, analysis, response>>
    /\ UNCHANGED vars
    /\ UNCHANGED scanVars

\* The host takes what the hook gave back, wherever the audit write is
Deliver ==
    /\ hookpc = "returned"
    /\ hookpc' = "delivered"
    /\ UNCHANGED <<entry, hookInput, analysis, response, audit, auditLog, stderr, rejected>>
    /\ UNCHANGED vars
    /\ UNCHANGED scanVars

\* The audit write is over, or there was none
AuditSettled == audit \in {"none", "skipped", "written", "failed at mkdir", "failed at append"}

\* The call and its audit write are over; the log is looked at per call
HookDone ==
    /\ hookpc = "delivered"
    /\ AuditSettled
    /\ hookpc' = "idle"
    /\ entry' = "none"
    /\ hookInput' = NoOptions
    /\ analysis' = NoResult
    /\ response' = NoResponse
    /\ audit' = "none"
    /\ auditLog' = <<>>
    /\ stderr' = <<>>
    /\ rejected' = <<>>
    /\ UNCHANGED vars
    /\ UNCHANGED scanVars

\* The commands the hosts ask about: allowed, denied, warned about by a rule
\* and as unparseable, wrapped, and one on which the analysis throws
HookCommands ==
    {"ls", "rm -rf /", "xargs rm -rf", "cat <<EOF", Wrap("bash", "-c", "rm -rf /"),
     "constructor x", Chain(3, "ls")}

\* args of a tool call and tool_input of the Claude hook
ToolArgs == {[command |-> c] : c \in HookCommands \cup {""}} \cup {[file_path |-> "a"]}

ClaudeInputs ==
    {[session_id |-> "s1", cwd |-> "/w", tool_name |-> t, tool_input |-> a] :
        t \in {"Bash", "Read"}, a \in ToolArgs}

Permissions ==
    {[type |-> "bash", pattern |-> c, sessionID |-> "s1"] : c \in HookCommands}
    \cup {[type |-> "bash", pattern |-> "rm -rf /"], [type |-> "edit", pattern |-> "rm -rf /"]}

ToolCalls == {[tool |-> t, args |-> a] : t \in {"bash", "shell", "read"}, a \in ToolArgs}

HookEnvironments ==
    {NoOptions, [SAFETY_NET_BYPASS |-> "1"], [SAFETY_NET_WARN_ONLY |-> "1"],
     [SAFETY_NET_STRICT |-> "true"], [SAFETY_NET_MAX_SEGMENTS |-> "2"]}

HookNext ==
    \/ \E input \in ClaudeInputs, e \in HookEnvironments : ProcessClaudeHook(input, e)
    \/ \E permission \in Permissions, e \in HookEnvironments : PermissionAsk(permission, "/w", e)
    \/ \E input \in ToolCalls, e \in HookEnvironments : ToolExecuteBefore(input, "/w", e)
    \/ Step
    \/ HookReturns
    \/ \E outcome \in MkdirOutcomes : MkdirSettles(outcome)
    \/ \E outcome \in AppendOutcomes : AppendSettles(outcome)
    \/ Deliver
    \/ HookDone

allVars == <<vars, hookVars>>

HookSpec == Init /\ [][HookNext]_allVars

(***************************************************************************)
(* Claims about the host adapters and the audit log                        *)
(***************************************************************************)

\* The handler of the hook is over: it returned or threw
HookEnded == hookpc \in {"returned", "delivered"}

\* The host asked about something other than a shell command, or gave no
\* command text
NotShellCommand ==
    \/ entry = "claude"
       /\ (hookInput.input.tool_name # "Bash" \/ NoCommand(hookInput.input.tool_input))
    \/ entry = "permission.ask" /\ hookInput.input.type # "bash"
    \/ entry = "tool.execute.before"
       /\ (hookInput.input.tool \notin {"bash", "shell"} \/ NoCommand(hookInput.input.args))

\* The hook carries a text to the host with a deny (permission.ask writes a
\* status and nothing else)
CarriesReason == entry \in {"claude", "tool.execute.before"}

\* C13: at every entry point (Claude PreToolUse, permission.ask,
\* tool.execute.before) a deny result is given back as a blocking response,
\* with the reason where the hook carries a text, a warn result as ask, an
\* allow result as pass-through; what is not a shell command with a command
\* text is passed through without analysis.
C13_AdaptersMapDecision ==
    HookEnded =>
        /\ NotShellCommand =>
              analysis = NoResult /\ response.kind \in {"allow", "pass"}
        /\ (~NotShellCommand /\ analysis.decision = "deny") =>
              /\ response.kind = "deny"
              /\ CarriesReason => response.reason = BlockedPrefix \o analysis.reason
        /\ (~NotShellCommand /\ analysis.decision = "warn") => response.kind = "ask"
        /\ (~NotShellCommand /\ analysis.decision = "allow") =>
              response.kind \in {"allow", "pass"}

\* tool.execute.before has returned for a command the analysis warns about
C13_Witness ==
    HookEnded /\ entry = "tool.execute.before" /\ analysis.decision = "warn"

\* The audit write failed, at mkdir or at appendFile
AuditFailed == audit \in {"failed at mkdir", "failed at append"}

\* C14: wherever the audit write is (not started, skipped, waiting for
\* mkdir or appendFile, written, failed), what the hook gave back is the
\* same function of the decision; no error of the write reaches the caller;
\* a failed write leaves one line on the error channel and nothing else.
C14_AuditFireAndForget ==
    /\ rejected = <<>>
    /\ (HookEnded /\ analysis # NoResult /\ analysis.decision # Threw) =>
          response = OutcomeOf(entry, analysis)
    /\ (HookEnded /\ analysis = NoResult) => response.kind \in {"allow", "pass"}
    /\ IF AuditFailed
       THEN Len(stderr) = 1 /\ auditLog = <<>> /\ HookEnded
       ELSE stderr = <<>>

\* The host has the deny of the hook and the audit write has failed at mkdir
C14_Witness ==
    hookpc = "delivered" /\ audit = "failed at mkdir" /\ response.kind = "deny"

\* Bypass mode made an allow of a result whose verdicts hold a warn or a deny
Bypassed ==
    /\ HookEnded
    /\ analysis # NoResult
    /\ "SAFETY_NET_BYPASS" \in DOMAIN hookInput.env
    /\ analysis.decision = "allow"
    /\ Severest(analysis.segments) # "allow"

\* C15: whenever bypass mode has turned a command whose verdicts include a
\* warn or a deny into a final allow, the audit call of the adapter writes
\* an entry for the command: the write is under way, done, or has failed,
\* and is never left out.
C15_BypassAudited ==
    Bypassed => audit \in {"mkdir", "append", "written", "failed at mkdir", "failed at append"}

\* The Claude hook has allowed rm -rf / under SAFETY_NET_BYPASS=1
C15_Witness ==
    Bypassed /\ entry = "claude" /\ hookInput.input.tool_input.command = "rm -rf /"

\* The more severe of two decisions
MaxDecision(d1, d2) == IF Rank(d1) >= Rank(d2) THEN d1 ELSE d2

\* The decision of the returned call is the more severe of the decisions of
\* analyzeCommand on a and on b, under the options and environment of the call
DecisionIsMax(a, b) ==
    result.decision = MaxDecision(analyzeCommand(a, options, env).decision,
                                  analyzeCommand(b, options, env).decision)

SegmentTexts(segments) == [i \in 1..Len(segments) |-> segments[i].command]

\* The && between a and b is met outside quotes: the segments of A && B are
\* those of A followed by those of B
SplitsAtJoin(a, b) ==
    SegmentTexts(splitCommand(Joined(a, b)))
        = SegmentTexts(splitCommand(a)) \o SegmentTexts(splitCommand(b))

Defaults == options = NoOptions /\ env = NoOptions

\* C17: for every category of the coverage table of the README,
\* analyzeCommand under the defaults returns a decision other than allow
\* for each blocked example listed.
C17_ReadmeExamplesNotAllowed ==
    (Returned /\ Defaults /\ command \in ReadmeCommands) => result.decision # "allow"

\* terraform destroy has been analyzed under the defaults
C17_Witness ==
    Returned /\ Defaults /\ command = "terraform destroy"

\* The command p c: the prefix form, then the command
Prefixed(p, c) == p \o " " \o c

\* C18: for every prefix form p (each prefix alone, with a flag, with a flag
\* and its separate value, chains of prefixes, assignments) before the
\* command rm -rf /, getEffectiveCommand names rm and the decision of the
\* call is that of rm -rf / alone.
C18_StrippingFindsCommand ==
    Returned =>
        \A p \in StrippedForms :
            command = Prefixed(p, "rm -rf /") =>
                /\ getEffectiveCommand(command).command = "rm"
                /\ result.decision = analyzeCommand("rm -rf /", options, env).decision

\* sudo -u root rm -rf / has been analyzed under the defaults
C18_Witness ==
    Returned /\ Defaults /\ command = Prefixed("sudo -u root", "rm -rf /")

\* maxRecursionDepth of the call, 4 when none is given
DepthLimit ==
    IF "maxRecursionDepth" \in DOMAIN mergedOptions
    THEN mergedOptions.maxRecursionDepth ELSE 4

\* The text was handed to analyzeSegment during the call
WasDispatched(text) == \E i \in 1..Len(dispatched) : dispatched[i].text = text

\* The numbers of shell wrappers in the chains of the calls
WrapperCounts == 1..(MaxNest + 1)

\* Every segment of the command is analyzed: there are no more than
\* maxSegments (64 when none is given)
WithinSegmentLimit ==
    Len(commandSegments) <= (IF "maxSegments" \in DOMAIN mergedOptions
                             THEN mergedOptions.maxSegments ELSE 64)

C19_BeyondBound ==
    /\ Returned
    /\ command = NestedChain(3, "rm -rf /")
    /\ DepthLimit = 2
    /\ ~WasDispatched("rm -rf /")
    /\ result.decision = "allow"

\* The extracted command the activation j of analyzeNested was looking at
\* when the activation above it was started
ParentOf(j) == stack[j].nested[stack[j].i - 1]

\* The extracted commands of the text
ExtractedFrom(text) == extractNestedCommands(tokenize(text))

\* The list that dispatches the segment and then each extracted command of
\* it once at depth 0
OnceEach(segment, nested) ==
    <<Dispatch(segment, -1)>> \o [i \in 1..Len(nested) |-> Dispatch(nested[i].command, 0)]

\* No extracted command is of kind shell
NoShellKind(nested) == \A i \in 1..Len(nested) : nested[i].type # "shell"

HeredocCommands ==
    {"cat <<EOF\nsensitive\nEOF", "bash <<'SCRIPT'\nrm -rf /\nSCRIPT",
     "sh <<\"END\"\necho hello\nEND", "bash <<-EOF\n\techo danger\nEOF",
     "git commit -m \"$(cat <<'EOF'\nFix\nEOF\n)\"",
     "git commit -m \"$(cat <<EOF\nm\nEOF\n)\"",
     "tool eval --stdin <<'IN'\nx;\nIN", "tool --stdin <<-'IN'\n\tx\nIN",
     "sleep 5 && tool --stdin  <<IN\nx\nIN",
     "bash <<'EOF'\n--stdin << is in the body\nEOF",
     "bash <<EOF\n$(cat << x\nEOF", "bash <<EOF && tool --stdin <<B",
     "x=$(cat <<A\nA\n); bash <<B\nrm -rf /\nB",
     "tool --stdin <<E <(ls)", "echo $((1)) --stdin <<E",
     "cat <<<word", "cat << EOF", "diff <(ls) <(ls)", "echo $((1 << 2))",
     "tool --stdin < f", "echo '$(cat <<' x"}

\* Quotes, escapes, groups and brackets without a partner
QuotedCommands ==
    {"echo \"a && b\"", "(echo a; echo b) && echo c", "echo 'a; b' | cat",
     "{ ls; ls; } || ls", "echo a) ; ls", "echo } && ls", "ls \\; ls",
     "echo `a; b` & ls", "echo \"a' && b\"", "echo 'a\" ; b'",
     "echo \\\" && ls", "(ls ; rm -rf /", "{ ls && ls", "echo $(ls; ls); ls",
     "echo \"$(a) && b\"", "echo 'a\\' ; ls", "((a)) ; ls", "echo 'a b' c\\ d"}

\* The operators, alone, doubled, leading and trailing
OperatorCommands ==
    {"ls && ls", "ls || ls", "ls ; ls", "ls | cat", "ls & ls", "ls |& cat",
     "ls ;; ls", "&& ls", "ls &", "ls;", " ls  ;  ls ", "ls\t&&\nls",
     "case x in a) ls ;; esac", "", "   ", "ls&&ls||ls;ls|ls&ls"}

\* Words between whitespace, some of them of the form name=value
WordCommands ==
    {"ls -la /tmp", "  git   push  origin ", "dd of=/dev/sda",
     "dd if=/dev/zero of=/dev/sda", "FOO=1 ls", "FOO=1 BAR=2 ls -l",
     "make -j4 CC=gcc", "ls --color=auto", "env A=1 ls", "kubectl  get\tpods",
     "=x ls", "1A=2 ls", "_a=1", "echo a>b", "ls 2>&1", "git commit -m \"a=b\"",
     "rm -rf /", "ls"}

ScanCommands == HeredocCommands \cup QuotedCommands \cup OperatorCommands \cup WordCommands

\* analyzeCommand's first two calls on the text: the detector, then the
\* splitter, whose loop starts
ScanStarts(c) ==
    /\ scanpc = "idle"
    /\ scanCommand' = c
    /\ scanUnparseable' = hasUnparseableConstructs(c)
    /\ scanIndex' = 1
    /\ splitter' = SplitInit
    /\ emptyFlushes' = 0
    /\ scanTokens' = <<>>
    /\ scanpc' = "splitting"
    /\ UNCHANGED <<vars, hookVars>>

\* The step of the loop flushed the current text at an operator: every
\* other branch appends the character to it
Flushed(n) == n.st.current = ""

\* One iteration of the for loop of splitCommand
SplitChar ==
    /\ scanpc = "splitting"
    /\ scanIndex <= Len(scanCommand)
    /\ LET n == SplitStep(scanCommand, scanIndex, splitter) IN
        /\ scanIndex' = n.i
        /\ splitter' = n.st
        /\ emptyFlushes' =
             IF Flushed(n) /\ Len(n.st.segments) = Len(splitter.segments)
             THEN emptyFlushes + 1 ELSE emptyFlushes
    /\ UNCHANGED <<scanpc, scanCommand, scanUnparseable, scanTokens>>
    /\ UNCHANGED <<vars, hookVars>>

\* The loop is over: the remaining content is pushed and the segments are
\* returned
SplitEnds ==
    /\ scanpc = "splitting"
    /\ scanIndex > Len(scanCommand)
    /\ splitter' = [splitter EXCEPT
                      !.segments = SplitFrom(scanCommand, scanIndex, splitter),
                      !.current = ""]
    /\ scanpc' = "split"
    /\ UNCHANGED <<scanCommand, scanUnparseable, scanIndex, emptyFlushes, scanTokens>>
    /\ UNCHANGED <<vars, hookVars>>

\* Each segment returned is tokenized, as the providers do
TokenizeSegments ==
    /\ scanpc = "split"
    /\ scanTokens' = [k \in 1..Len(splitter.segments) |->
                         tokenize(splitter.segments[k].command)]
    /\ scanpc' = "tokenized"
    /\ UNCHANGED <<scanCommand, scanUnparseable, scanIndex, splitter, emptyFlushes>>
    /\ UNCHANGED <<vars, hookVars>>

\* Nothing of a scan is kept after it
ScanLeaves ==
    /\ scanpc = "tokenized"
    /\ scanpc' = "idle"
    /\ scanCommand' = ""
    /\ scanUnparseable' = FALSE
    /\ scanIndex' = 1
    /\ splitter' = SplitInit
    /\ emptyFlushes' = 0
    /\ scanTokens' = <<>>
    /\ UNCHANGED <<vars, hookVars>>

ScanNext ==
    \/ \E c \in ScanCommands : ScanStarts(c)
    \/ SplitChar
    \/ SplitEnds
    \/ TokenizeSegments
    \/ ScanLeaves

ScanSpec == Init /\ [][ScanNext]_scanVars

\* The segments returned to the caller of splitCommand
Segments == splitter.segments

\* splitCommand has returned
SplitReturned == scanpc \in {"split", "tokenized"}

\* The loop, step by step, returns what splitCommand computes
ScanAgrees == SplitReturned => Segments = splitCommand(scanCommand)


(***************************************************************************)
(* Claims about the detector, the splitter and the tokenizer               *)
(***************************************************************************)

\* A text has been handed to the detector
Scanned == scanpc # "idle"

\* Heredoc syntax at index i of s: two <, an optional -, then a delimiter
\* word, bare or after an opening quote
HeredocSyntaxAt(s, i) ==
    /\ Ch(s, i) = "<" /\ Ch(s, i + 1) = "<"
    /\ \E open \in {"", "-", "'", "\"", "-'", "-\""} :
          /\ Mid(s, i + 2, Len(open)) = open
          /\ IsWordChar(Ch(s, i + 2 + Len(open)))

\* The two < at index i of s come after the idiom and whitespace only
AfterIdiom(s, i, idiom) ==
    \E j \in 1..(i - 1) :
        /\ Mid(s, j, Len(idiom)) = idiom
        /\ j + Len(idiom) < i
        /\ \A k \in (j + Len(idiom))..(i - 1) : Ch(s, k) \in Whitespace

\* The heredoc at index i is one of the two whitelisted idioms
WhitelistedAt(s, i) == AfterIdiom(s, i, "$(cat") \/ AfterIdiom(s, i, "--stdin")

\* One of the two idioms, whitespace and two < occur somewhere in s, heredoc
\* or not
WhitelistPatternIn(s) ==
    \E i \in 1..Len(s) : Mid(s, i, 2) = "<<" /\ WhitelistedAt(s, i)

\* C21 as stated: the detector returns true for every command that contains
\* a heredoc which is not itself one of the two whitelisted idioms.
C21_HeredocFlagged ==
    (Scanned /\ \E i \in 1..Len(scanCommand) :
                    HeredocSyntaxAt(scanCommand, i) /\ ~WhitelistedAt(scanCommand, i))
    => scanUnparseable

\* C21: the detector returns true for every command that contains heredoc
\* syntax unless one of the two whitelist patterns occurs anywhere in the
\* command text.
C21_HeredocFlaggedUnlessPattern ==
    (Scanned /\ (\E i \in 1..Len(scanCommand) : HeredocSyntaxAt(scanCommand, i))
             /\ ~WhitelistPatternIn(scanCommand))
    => scanUnparseable

\* A heredoc with a quoted delimiter and no whitelist pattern was flagged
C21_Witness ==
    /\ Scanned
    /\ \E i \in 1..Len(scanCommand) :
          HeredocSyntaxAt(scanCommand, i) /\ Ch(scanCommand, i + 2) = "'"
    /\ ~WhitelistPatternIn(scanCommand)
    /\ scanUnparseable

\* C22: for every command in which --stdin << or $(cat << occurs anywhere
\* and neither <( nor $(( occurs, the detector returns false, also when the
\* heredoc itself is attached to another command.
C22_PatternAnywhereAllows ==
    (Scanned /\ (StrIncludes(scanCommand, "--stdin <<") \/ StrIncludes(scanCommand, "$(cat <<"))
             /\ ~StrIncludes(scanCommand, "<(")
             /\ ~StrIncludes(scanCommand, "$(("))
    => ~scanUnparseable

\* A heredoc attached to bash, with --stdin << in its body only, was not
\* flagged
C22_Witness ==
    /\ Scanned
    /\ StartsWith(scanCommand, "bash <<'EOF'\n")
    /\ StrIncludes(scanCommand, "\n--stdin <<")
    /\ ~(\E i \in 1..Len(scanCommand) :
            HeredocSyntaxAt(scanCommand, i) /\ WhitelistedAt(scanCommand, i))
    /\ ~scanUnparseable


\* The scanner is inside single quotes, inside double quotes or inside a
\* group
Inside(st) ==
    st.inSingleQuote \/ st.inDoubleQuote \/ st.parenDepth > 0 \/ st.braceDepth > 0

\* The step of the loop made a boundary: the current text was flushed at the
\* operator just read
Boundary == scanIndex' > scanIndex /\ splitter'.current = ""

CountersNeverNegative == splitter.parenDepth >= 0 /\ splitter.braceDepth >= 0

\* The two examples of the statement, once splitCommand has returned
SplitExamples ==
    SplitReturned =>
        /\ scanCommand = "echo \"a && b\"" => Len(Segments) = 1
        /\ scanCommand = "(echo a; echo b) && echo c" => Len(Segments) = 2

\* C23: splitCommand never makes a segment boundary at an operator that lies
\* inside single quotes, inside double quotes or inside a group, the two
\* nesting counters are never negative, echo "a && b" gives one segment and
\* (echo a; echo b) && echo c gives two.
C23_NoSplitInside ==
    /\ [](CountersNeverNegative /\ SplitExamples)
    /\ [][Boundary => ~Inside(splitter)]_scanVars

\* The loop has read an operator inside double quotes and has made no
\* boundary
C23_Witness ==
    /\ scanpc = "splitting"
    /\ splitter.inDoubleQuote
    /\ Ch(scanCommand, scanIndex - 1) = "&"
    /\ Segments = <<>>

\* A closing bracket without a partner was read and the counter is zero
C23_Clamped ==
    /\ scanpc = "splitting"
    /\ scanIndex > 1
    /\ Ch(scanCommand, scanIndex - 1) = ")"
    /\ ~splitter.inSingleQuote /\ ~splitter.inDoubleQuote
    /\ splitter.parenDepth = 0
    /\ scanCommand = "echo a) ; ls"


\* The control operators (OPERATORS of splitter.ts)
Operators == {"&&", "||", ";", "|", "&"}

\* The operator at index i of s as a shell reads it: two characters when
\* they make && or ||, else the one character
OperatorAt(s, i) ==
    IF Mid(s, i, 2) \in {"&&", "||"} THEN Mid(s, i, 2) ELSE Ch(s, i)

RECURSIVE Reproduces(_, _, _)
\* From index i on, s is the segments in order, each followed by its
\* operator, with whitespace around the segment texts only
Reproduces(s, i, segs) ==
    LET j == SkipWs(s, i) IN
    IF segs = <<>> THEN j > Len(s)
    ELSE LET seg == Head(segs)
             k == SkipWs(s, j + Len(seg.command))
         IN /\ Mid(s, j, Len(seg.command)) = seg.command
            /\ IF seg.operator = Undef
               THEN Reproduces(s, k, Tail(segs))
               ELSE /\ Mid(s, k, Len(seg.operator)) = seg.operator
                    /\ Reproduces(s, k + Len(seg.operator), Tail(segs))

\* C24 as stated: for every command, the segments returned, concatenated in
\* order each with its operator, reproduce the command up to the whitespace
\* around the segments.
C24_RoundTrip == SplitReturned => Reproduces(scanCommand, 1, Segments)

\* C24: for every command in which no operator is met while the text
\* accumulated since the previous operator is blank, the segments returned,
\* concatenated in order each with its operator, reproduce the command up to
\* the whitespace around the segments.
C24_RoundTripNoEmptySegment ==
    (SplitReturned /\ emptyFlushes = 0) => Reproduces(scanCommand, 1, Segments)

\* A command of six segments under all five operators was split and is
\* reproduced
C24_Witness ==
    /\ SplitReturned
    /\ emptyFlushes = 0
    /\ Len(Segments) = 6
    /\ {Segments[k].operator : k \in 1..5} = Operators
    /\ Reproduces(scanCommand, 1, Segments)

RECURSIVE SkipBlank(_, _)
\* The index of the first character from i on that is neither whitespace nor
\* the character of an operator
SkipBlank(s, i) ==
    IF Ch(s, i) \in Whitespace \cup {";", "|", "&"} THEN SkipBlank(s, i + 1) ELSE i

RECURSIVE Precedes(_, _, _)
\* From index i on, s holds the segments in order, each after the operator
\* it records; the first records none
Precedes(s, i, segs) ==
    segs = <<>> \/
    LET seg == Head(segs)
        j == SkipWs(s, i)
        k == IF seg.operator = Undef THEN j ELSE SkipWs(s, j + Len(seg.operator))
    IN /\ seg.operator # Undef => OperatorAt(s, j) = seg.operator
       /\ Mid(s, k, Len(seg.command)) = seg.command
       /\ Precedes(s, k + Len(seg.command), Tail(segs))

\* C25 as stated: the first segment returned carries no operator and every
\* later segment records the operator that immediately precedes it in the
\* command.
C25_OperatorPrecedes ==
    SplitReturned =>
        /\ Segments # <<>> => Segments[1].operator = Undef
        /\ \A k \in 2..Len(Segments) : Segments[k].operator \in Operators
        /\ Precedes(scanCommand, 1, Segments)

RECURSIVE Follows(_, _, _)
\* From index i on, s holds the segments in order, each followed by the
\* operator it records or, when it records none, by the end of s; between
\* an operator and the next segment there are only blanks and the operators
\* that flushed no text
Follows(s, i, segs) ==
    LET j == SkipBlank(s, i) IN
    IF segs = <<>> THEN j > Len(s)
    ELSE LET seg == Head(segs)
             k == SkipWs(s, j + Len(seg.command))
         IN /\ Mid(s, j, Len(seg.command)) = seg.command
            /\ IF seg.operator = Undef
               THEN k > Len(s) /\ Tail(segs) = <<>>
               ELSE /\ seg.operator \in Operators
                    /\ OperatorAt(s, k) = seg.operator
                    /\ Follows(s, k + Len(seg.operator), Tail(segs))

\* C25: every segment returned records the operator that immediately
\* follows its text in the command, the one that flushed it; a segment
\* records no operator exactly when the end of the command flushed it, and
\* it is then the last.
C25_OperatorFollows == SplitReturned => Follows(scanCommand, 1, Segments)

\* Two segments were returned: the first records the operator between them,
\* the second none
C25_Witness ==
    /\ SplitReturned
    /\ Len(Segments) = 2
    /\ Segments[1].operator = "&&"
    /\ Segments[2].operator = Undef
    /\ Follows(scanCommand, 1, Segments)


\* The tokenizer has been applied to each segment
Tokenized == scanpc = "tokenized"

\* Quotes, the backslash, the redirect characters and the other characters
\* that are special to a shell
SpecialCharacters ==
    {"'", "\"", Backtick, "\\", "<", ">", "|", "&", ";", "(", ")", "{", "}",
     "$", "*", "?", "[", "]", "#", "~", "!"}

Plain(s) == \A i \in 1..Len(s) : Ch(s, i) \notin SpecialCharacters

RECURSIVE WordsFrom(_, _)
\* The words of s between runs of whitespace, after the word cur under way
WordsFrom(s, cur) ==
    IF s = "" THEN (IF cur = "" THEN <<>> ELSE <<cur>>)
    ELSE IF Head(s) \in Whitespace
    THEN (IF cur = "" THEN <<>> ELSE <<cur>>) \o WordsFrom(Tail(s), "")
    ELSE WordsFrom(Tail(s), cur \o Head(s))

\* The command split on whitespace
WhitespaceSplit(s) == WordsFrom(s, "")

\* The words the providers get from the tokens of a command of one segment
\* at most
ScanWords == IF scanTokens = <<>> THEN <<>> ELSE extractWords(scanTokens[1])

\* C26: for every command with no quote, backslash, redirect character or
\* other special character, the words the providers get from the tokens,
\* in order, are the command split on whitespace.
C26_WordsAreWhitespaceSplit ==
    (Tokenized /\ Plain(scanCommand)) => ScanWords = WhitespaceSplit(scanCommand)

\* A plain command of three words with runs of whitespace was tokenized
\* into its three words
C26_Witness ==
    /\ Tokenized
    /\ Plain(scanCommand)
    /\ Len(WhitespaceSplit(scanCommand)) = 3
    /\ Len(scanCommand) > Len(JoinWords(WhitespaceSplit(scanCommand), " "))
    /\ ScanWords = WhitespaceSplit(scanCommand)

\* The token of index k stands where a command name is expected: only
\* assignments and prefix commands come before it
AtCommandPosition(tokens, k) ==
    \A j \in 1..(k - 1) :
        tokens[j].type = "env" \/ tokens[j].value \in STRIP_PREFIXES

\* C27: a word of the form identifier=value is tagged as an assignment only
\* where a command name is expected; after the command name it is a word
\* token, which the providers see.
C27_AssignmentOnlyAtCommandPosition ==
    Tokenized =>
        \A s \in 1..Len(scanTokens) : \A k \in 1..Len(scanTokens[s]) :
            LET t == scanTokens[s][k] IN
            (t.type # "redirect" /\ IsEnvAssignment(t.value)
                /\ ~AtCommandPosition(scanTokens[s], k))
            => (t.type = "word" /\ Includes(extractWords(scanTokens[s]), t.value))

\* An assignment before the command name was tagged as one and the command
\* name as a word
C27_Witness ==
    /\ Tokenized
    /\ Len(scanTokens) = 1
    /\ Len(scanTokens[1]) = 2
    /\ scanTokens[1][1].type = "env" /\ scanTokens[1][1].value = "FOO=1"
    /\ scanTokens[1][2].type = "word" /\ scanTokens[1][2].value = "ls"


(***************************************************************************)
(* Claims about the result, group bodies and the dispatch                  *)
(***************************************************************************)

\* The reason of a result with no verdict
SafeMessage == "Command appears safe."

\* C28: with warnOnly and bypass off, the decision of the result is the
\* most severe decision in its list of verdicts, allow when the list is
\* empty; the list holds no allow verdict; the reason is the fixed safe
\* message exactly when the list is empty.
C28_ResultInvariant ==
    (Returned /\ ~Truthy(mergedOptions, "warnOnly") /\ ~Truthy(mergedOptions, "bypass"))
    => /\ \A d \in {"deny", "warn"} :
            (result.decision = d) =>
                /\ \E k \in 1..Len(result.segments) : result.segments[k].decision = d
                /\ \A k \in 1..Len(result.segments) :
                      Rank(result.segments[k].decision) <= Rank(d)
       /\ (result.decision = "allow") <=> (result.segments = <<>>)
       /\ result.decision \in {"allow", "warn", "deny"}
       /\ \A k \in 1..Len(result.segments) : result.segments[k].decision # "allow"
       /\ (result.reason = SafeMessage) <=> (result.segments = <<>>)

\* A call without modifiers whose segments were all dispatched and allowed
\* returned an empty list, allow and the safe message
C28_Witness ==
    /\ Returned
    /\ ~Truthy(mergedOptions, "warnOnly") /\ ~Truthy(mergedOptions, "bypass")
    /\ Len(dispatched) >= 2
    /\ result.segments = <<>>
    /\ result.decision = "allow"
    /\ result.reason = SafeMessage

\* A call without modifiers returned warn with a list of more than one
\* verdict, none of them a deny
C28_WarnReturned ==
    /\ Returned
    /\ ~Truthy(mergedOptions, "warnOnly") /\ ~Truthy(mergedOptions, "bypass")
    /\ Len(result.segments) >= 2
    /\ result.decision = "warn"


\* A returned call under the defaults on a command free of unparseable
\* constructs
ReturnedPlain == Returned /\ Defaults /\ ~unparseable

\* The command name of the segment that holds c in a group: the first word
\* as written, opening bracket included, which is not the name of c
GroupName(form, c) == NameOf(Grouped(form, c))

\* The one segment of the call was dispatched, nothing was extracted from
\* it, its command name is that of the group, not that of c, and no
\* verdict was recorded
Opaque(segment, form, c) ==
    /\ dispatched = <<Dispatch(segment, -1)>>
    /\ getEffectiveCommand(segment).nested = <<>>
    /\ getEffectiveCommand(segment).command = GroupName(form, c)
    /\ GroupName(form, c) \notin {NameOf(c), getEffectiveCommand(c).command}
          \/ NameOf(c) = "echo"
    /\ result.segments = <<>>
    /\ result.decision = "allow"

RECURSIVE Pairs(_, _, _)
\* Every closing bracket of c from index i on has an opening partner before
\* it in c; open counts the brackets open at i, round and curly
Pairs(c, i, open) ==
    IF i > Len(c) THEN TRUE
    ELSE IF Ch(c, i) = "(" THEN Pairs(c, i + 1, [open EXCEPT !.round = @ + 1])
    ELSE IF Ch(c, i) = "{" THEN Pairs(c, i + 1, [open EXCEPT !.curly = @ + 1])
    ELSE IF Ch(c, i) = ")"
    THEN open.round > 0 /\ Pairs(c, i + 1, [open EXCEPT !.round = @ - 1])
    ELSE IF Ch(c, i) = "}"
    THEN open.curly > 0 /\ Pairs(c, i + 1, [open EXCEPT !.curly = @ - 1])
    ELSE Pairs(c, i + 1, open)

Paired(c) == Pairs(c, 1, [round |-> 0, curly |-> 0])

QuotedSpellings == {"single", "double", "escaped"}

\* What the dispatcher returns for the segment of the call
Dispatcher == analyzeSegment(command, mergedOptions)

\* C30: a segment whose command name is quoted or escaped is dispatched
\* like the bare name; a segment whose command name is qualified by a path
\* or written in another letter case matches no provider and the dispatcher
\* returns allow for it.
C30_DispatchByExactName ==
    (Returned /\ Defaults) =>
        \A sp \in Spellings, p \in Providers :
            command = Respelled(sp, p.command) =>
                /\ dispatched[1] = Dispatch(command, -1)
                /\ analyzeSegment(p.command, mergedOptions).decision # "allow"
                /\ IF sp \in QuotedSpellings
                   THEN /\ getEffectiveCommand(command).command = NameOf(p.command)
                        /\ Dispatcher.decision =
                             analyzeSegment(p.command, mergedOptions).decision
                        /\ Dispatcher.rule = analyzeSegment(p.command, mergedOptions).rule
                        /\ result.decision = Dispatcher.decision
                   ELSE /\ getEffectiveCommand(command).command # NameOf(p.command)
                        /\ Dispatcher = AllowVerdict
                        /\ result.segments = <<>>
                        /\ result.decision = "allow"

\* git push -f with its name between single quotes was denied or warned
\* about like the bare command
C30_Witness ==
    /\ Returned /\ Defaults
    /\ command = Respelled("single", "git push -f")
    /\ result.decision # "allow"
    /\ result.decision = analyzeSegment("git push -f", mergedOptions).decision

\* git push -f under /usr/bin/git was allowed
C30_PathAllowed ==
    /\ Returned /\ Defaults
    /\ command = "/usr/bin/git push -f"
    /\ result.decision = "allow"

====
